---- MODULE Spec2Model ----
(***************************************************************************)
(* A model of the core of the dns-server crate: the packet buffer with     *)
(* name compression (buffer/buffer.rs), the wire codec                     *)
(* (protocols/protocol.rs), the TTL cache (cache/memory_cache.rs), the UDP *)
(* transaction client (client/network_client.rs) and the resolvers         *)
(* (the files under resolvers).                                            *)
(*                                                                         *)
(* Conventions.  A byte is a number 0..255.  A domain name (a Rust string  *)
(* with '.' separators) is the sequence of its labels, a label being the   *)
(* sequence of its bytes; the empty string is <<>>.  Positions are         *)
(* 0-based as in the source, so byte p of a buffer is bytes[p + 1].        *)
(* A Rust panic (index out of bounds, unwrap of None) is the outcome       *)
(* "Panic"; it is never folded into an error value.                        *)
(***************************************************************************)
EXTENDS Integers, Sequences, FiniteSets, TLC

VARIABLES
    \* ---- buffer/buffer.rs : one VectorPacketBuffer and one read_qname run
    buffer,     \* [bytes, pos, label_lookup]
    rq,         \* the running read_qname: [pc, pos, jumped, out, jumps, status]
    bphase,     \* "write" | "read" | "done"
    written,    \* names write_qname accepted, in order
    decoded,    \* results of the read_qname calls, in order
    \* ---- cache/memory_cache.rs : one Cache and the wall clock
    cache,      \* Cache.domain_entries: owner name -> DomainEntry
    now,        \* Local::now(), in seconds
    lastStore,  \* the store call that is followed: [kind, qname, qtype, rec, ttl, t0]
    lookupRes,  \* what the latest lookup call returned
    \* ---- client/network_client.rs : one DnsNetworkClient, its callers, the network
    client,     \* [total_sent, total_failed, seq, pending_queries]
    calls,      \* per send_udp_query call: [pc, qname, id, chan, result, sent, failed, fired]
    wire,       \* ids of the query datagrams handed to the socket
    inbox,      \* ids of the response datagrams waiting at the socket
    \* ---- cache/memory_cache.rs : one SynchronizedCache (around cache) and its tasks
    lock,       \* the RwLock: [writing, readers, poisoned]
    storers,    \* per task calling store: [pc, batch, i]
    readers,    \* per task calling lookup: [pc, qname, qtype, returned, out]
    held,       \* owners whose Arc<DomainEntry> a caller of list() still holds
    storeLog,   \* the batches of the store calls that took the lock
    \* ---- resolvers : one resolver serving one resolve call at a time; call is
    \* <<qname, qtype, recursion, allow_recursive, strategy>>, t0 the instant of
    \* its last step
    resolver,   \* [pc, call, stack, result, t0]; stack holds the perform invocations,
                \* the innermost first: [qname, qtype, ns, sent, last]
    \* ---- protocols : one DnsPacket written to a buffer and read back
    codec       \* [pc, before, packet, max_size, buffer, werr, parsed, rerr, writes,
                \* emitted]; emitted is the record_count of the last write

bufVars == <<buffer, rq, bphase, written, decoded>>

cacheVars == <<cache, now, lastStore, lookupRes>>

clientVars == <<client, calls, wire, inbox>>

syncVars == <<lock, storers, readers, held, storeLog>>

nonBufVars == <<cacheVars, clientVars, syncVars, resolver, codec>>

nonCacheVars == <<bufVars, clientVars, syncVars, resolver, codec>>

nonClientVars == <<bufVars, cacheVars, syncVars, resolver, codec>>

\* the SynchronizedCache works on cache, at one instant of the clock
nonSyncVars == <<bufVars, clientVars, now, lastStore, lookupRes, resolver, codec>>

\* the resolver works on cache
nonResolverVars == <<bufVars, clientVars, syncVars, now, lastStore, lookupRes, codec>>

\* the codec works on a packet and a buffer of its own
nonCodecVars == <<bufVars, cacheVars, clientVars, syncVars, resolver>>

vars ==
    <<buffer, rq, bphase, written, decoded, cache, now, lastStore, lookupRes,
      client, calls, wire, inbox, lock, storers, readers, held, storeLog, resolver,
      codec>>

(***************************************************************************)
(* Helpers                                                                 *)
(***************************************************************************)
Range(s) == {s[i] : i \in 1..Len(s)}

\* Option::None of a position
None == -1

\* all sequences over S of length 0..n
RECURSIVE SeqsUpTo(_, _)
SeqsUpTo(S, n) ==
    IF n = 0 THEN {<<>>}
    ELSE LET shorter == SeqsUpTo(S, n - 1)
         IN  shorter \cup {Append(s, x) : s \in {t \in shorter : Len(t) = n - 1}, x \in S}

(***************************************************************************)
(* buffer.rs : VectorPacketBuffer primitives (lines 293-348)               *)
(***************************************************************************)
NewVectorBuffer == [bytes |-> <<>>, pos |-> 0, label_lookup |-> [x \in {} |-> 0]]

\* fn find_label: label_lookup.get(label).cloned()
FindLabel(buf, name) ==
    IF name \in DOMAIN buf.label_lookup THEN buf.label_lookup[name] ELSE None

\* fn save_label: label_lookup.insert(label, pos)  (BTreeMap::insert overwrites)
SaveLabel(buf, name, p) ==
    [buf EXCEPT !.label_lookup =
        [x \in (DOMAIN buf.label_lookup) \cup {name} |->
            IF x = name THEN p ELSE buf.label_lookup[x]]]

\* fn write: buffer.push(val); pos += 1   (the byte is appended wherever pos is)
VecWrite(buf, val) ==
    [buf EXCEPT !.bytes = Append(@, val), !.pos = @ + 1]

\* fn seek: pos = pos, always Ok
VecSeek(buf, p) == [buf EXCEPT !.pos = p]

\* fn write_u16: high byte, low byte
WriteU16(buf, val) == VecWrite(VecWrite(buf, (val \div 256) % 256), val % 256)

\* fn write_u32: big endian
WriteU32(buf, val) ==
    VecWrite(VecWrite(VecWrite(VecWrite(buf,
        (val \div 16777216) % 256), (val \div 65536) % 256), (val \div 256) % 256), val % 256)

\* fn write_all: write(b) for each byte in turn; on this buffer no write fails,
\* so the bytes are appended and pos advances by their number
WriteAll(buf, bs) ==
    [buf EXCEPT !.bytes = @ \o bs, !.pos = @ + Len(bs)]

(***************************************************************************)
(* buffer.rs : write_qname (lines 132-166)                                 *)
(***************************************************************************)
\* char::is_alphanumeric() || c == '-', on the ASCII range
IsLabelChar(c) ==
    \/ c \in 48..57
    \/ c \in 65..90
    \/ c \in 97..122
    \/ c = 45

\* (pos as u16) | 0xC000
PointerWord(p) == 49152 + ((p % 65536) % 16384)

\* the for loop over labels, from label index i (1-based); the result keeps
\* whatever was written before an error return
RECURSIVE WriteLabels(_, _, _)
WriteLabels(buf, labels, i) ==
    IF i > Len(labels)
    THEN [buf |-> VecWrite(buf, 0), err |-> "Ok"]              \* !jumped: write_u8(0)
    ELSE LET label == labels[i]
             remaining_qname == SubSeq(labels, i, Len(labels))
         IN  IF \E c \in Range(label) : ~IsLabelChar(c)
             THEN [buf |-> buf, err |-> "InvalidCharacterInLabel"]
             ELSE IF FindLabel(buf, remaining_qname) # None
             THEN [buf |-> WriteU16(buf, PointerWord(FindLabel(buf, remaining_qname))),
                   err |-> "Ok"]                                \* jumped = true; break
             ELSE WriteLabels(
                    WriteAll(VecWrite(SaveLabel(buf, remaining_qname, buf.pos),
                                     Len(label) % 256),          \* label.len() as u8
                             label),
                    labels, i + 1)

WriteQname(buf, qname) ==
    IF qname = <<>>
    THEN [buf |-> VecWrite(buf, 0), err |-> "Ok"]
    ELSE WriteLabels(buf, qname, 1)

(***************************************************************************)
(* buffer.rs : read_qname (lines 226-273)                                  *)
(***************************************************************************)
\* a test that takes every length octet for the length of a label
NoCompressionPointer(len) == FALSE

\* fn is_compression_pointer: (len & 0xC0) > 0
IsCompressionPointer(len) == len >= 64

\* ((len as u16) ^ 0xC0) << 8 | b2 : the xor flips the two top bits of len
CalculateOffset(len, b2) ==
    LET xor == IF len >= 192 THEN len - 192
               ELSE IF len >= 128 THEN len - 64
               ELSE IF len >= 64 THEN len + 64
               ELSE len + 192
    IN  ((xor * 256) % 65536) + b2

\* str::to_lowercase on ASCII bytes
ToLower(c) == IF c \in 65..90 THEN c + 32 ELSE c

LowerLabel(label) == [i \in 1..Len(label) |-> ToLower(label[i])]

LowerName(name) == [i \in 1..Len(name) |-> LowerLabel(name[i])]

\* a run that takes itself to have jumped before its first octet
RqStartJumped(p) ==
    [pc |-> "loop", pos |-> p, jumped |-> TRUE, out |-> <<>>, jumps |-> 0,
     status |-> "Running"]

\* entry of read_qname: pos = self.pos(), jumped = false
RqStart(p) ==
    [pc |-> "loop", pos |-> p, jumped |-> FALSE, out |-> <<>>, jumps |-> 0,
     status |-> "Running"]

RqIdle ==
    [pc |-> "idle", pos |-> 0, jumped |-> FALSE, out |-> <<>>, jumps |-> 0,
     status |-> "None"]

RqEnd(st, s) == [st EXCEPT !.pc = "done", !.status = s]

\* one iteration of the loop of read_qname on a VectorPacketBuffer:
\* get() indexes the Vec and panics outside it, get_range() returns EndOfBuffer
RqStep(buf, st) ==
    IF st.pos >= Len(buf.bytes)
    THEN [buf |-> buf, st |-> RqEnd(st, "Panic")]               \* self.get(pos)
    ELSE LET len == buf.bytes[st.pos + 1]
         IN  IF IsCompressionPointer(len)
             THEN LET b1 == IF st.jumped THEN buf ELSE VecSeek(buf, st.pos + 2)
                  IN  IF st.pos + 1 >= Len(buf.bytes)
                      THEN [buf |-> b1, st |-> RqEnd(st, "Panic")]  \* get(pos + 1)
                      ELSE [buf |-> b1,
                            st  |-> [st EXCEPT
                                       !.pos = CalculateOffset(len, buf.bytes[st.pos + 2]),
                                       !.jumped = TRUE,
                                       !.jumps = @ + 1]]
             ELSE IF len = 0
             THEN [buf |-> IF st.jumped THEN buf ELSE VecSeek(buf, st.pos + 1),
                   st  |-> RqEnd([st EXCEPT !.pos = @ + 1], "Ok")]
             ELSE IF st.pos + 1 + len > Len(buf.bytes)
             THEN [buf |-> buf, st |-> RqEnd([st EXCEPT !.pos = @ + 1], "EndOfBuffer")]
             ELSE [buf |-> buf,
                   st  |-> [st EXCEPT
                              !.out = Append(@, LowerLabel(SubSeq(buf.bytes, st.pos + 2,
                                                                   st.pos + 1 + len))),
                              !.pos = st.pos + 1 + len]]

\* read_qname run to its return, at most fuel iterations (status "Running" is left
\* when the loop has not returned by then)
RECURSIVE RqRun(_, _, _)
RqRun(buf, st, fuel) ==
    IF st.pc = "done" \/ fuel = 0
    THEN [buf |-> buf, st |-> st]
    ELSE LET n == RqStep(buf, st) IN RqRun(n.buf, n.st, fuel - 1)


\* VectorPacketBuffer::new, nothing written or read
BufIdle ==
    /\ buffer = NewVectorBuffer
    /\ rq = RqIdle
    /\ bphase = "idle"
    /\ written = <<>>
    /\ decoded = <<>>

(***************************************************************************)
(* protocol.rs : the values the cache and the resolvers handle             *)
(***************************************************************************)
\* QueryType::to_num (lines 58-71)
QT_A == 1
QT_NS == 2
QT_CNAME == 5
QT_SOA == 6
QT_MX == 15
QT_TXT == 16
QT_AAAA == 28
QT_SRV == 33
QT_OPT == 41

\* enum ResultCode (lines 590-597)
NOERROR == 0
FORMERR == 1
SERVFAIL == 2
NXDOMAIN == 3
NOTIMP == 4
REFUSED == 5

\* A DnsRecord is [qtype, domain, ttl, data]: qtype the number of its variant
\* (an UNKNOWN record carries its own), data the tuple of the variant's payload
\* fields in declaration order.
Rec(qtype, domain, data, ttl) ==
    [qtype |-> qtype, domain |-> domain, data |-> data, ttl |-> ttl]

\* derive(PartialEq, Hash) over a TransientTtl that always compares equal: two
\* records are equal when all fields but the ttl are
RecKey(r) == [qtype |-> r.qtype, domain |-> r.domain, data |-> r.data]

\* impl Default for DnsHeader / DnsHeader::new
NewHeader ==
    [id |-> 0, recursion_desired |-> FALSE, truncated_message |-> FALSE,
     authoritative_answer |-> FALSE, opcode |-> 0, response |-> FALSE,
     rescode |-> NOERROR, checking_disabled |-> FALSE, authed_data |-> FALSE,
     z |-> FALSE, recursion_available |-> FALSE,
     questions |-> 0, answers |-> 0, authoritative_entries |-> 0,
     resource_entries |-> 0]

\* DnsPacket::new
NewPacket ==
    [header |-> NewHeader, questions |-> <<>>, answers |-> <<>>,
     authorities |-> <<>>, resources |-> <<>>]

\* Option<DnsPacket>
SomePacket(p) == [some |-> TRUE, packet |-> p]

NoPacket == [some |-> FALSE, packet |-> NewPacket]

(***************************************************************************)
(* memory_cache.rs : DomainEntry and Cache (lines 71-228).  The hits and   *)
(* updates counters are written and never read; they are left out.         *)
(***************************************************************************)
\* RecordSet::NoRecords {qtype, ttl, timestamp} / RecordSet::Records {qtype, records}
NoRecords(ttl, timestamp) ==
    [kind |-> "NoRecords", ttl |-> ttl, timestamp |-> timestamp, records |-> {}]

Records(entries) ==
    [kind |-> "Records", ttl |-> 0, timestamp |-> 0, records |-> entries]

\* a map with one more (or one replaced) key
MapPut(m, k, v) == [x \in (DOMAIN m) \cup {k} |-> IF x = k THEN v ELSE m[x]]

EmptyMap == [x \in {} |-> 0]

\* DomainEntry::new: record_types empty
NewDomainEntry == [record_types |-> EmptyMap]

\* RecordEntry::is_valid: timestamp + ttl > now
IsValid(entry, t) == entry.timestamp + entry.record.ttl > t

\* HashSet::insert of a RecordEntry whose eq/hash are those of its record: an
\* equal element already in the set is kept, and the new one is dropped
HashSetInsert(entries, e) ==
    IF \E x \in entries : RecKey(x.record) = RecKey(e.record)
    THEN entries
    ELSE entries \cup {e}

\* DomainEntry::store_record: entry(qtype).and_modify(insert into Records)
\*                                        .or_insert_with(Records {entry})
StoreRecord(de, rec, t) ==
    LET e == [record |-> rec, timestamp |-> t]
        rt == de.record_types
    IN  IF rec.qtype \in DOMAIN rt
        THEN IF rt[rec.qtype].kind = "Records"
             THEN [de EXCEPT !.record_types =
                     MapPut(rt, rec.qtype,
                            Records(HashSetInsert(rt[rec.qtype].records, e)))]
             ELSE de
        ELSE [de EXCEPT !.record_types = MapPut(rt, rec.qtype, Records({e}))]

\* a store_nxdomain that keeps the set already held for the type (or_insert)
StoreNxdomainKeepOld(de, qtype, ttl, t) ==
    IF qtype \in DOMAIN de.record_types
    THEN de
    ELSE [de EXCEPT !.record_types = MapPut(de.record_types, qtype, NoRecords(ttl, t))]

\* DomainEntry::store_nxdomain: record_types.insert(qtype, NoRecords {..})
StoreNxdomainEntry(de, qtype, ttl, t) ==
    [de EXCEPT !.record_types = MapPut(de.record_types, qtype, NoRecords(ttl, t))]

\* DomainEntry::get_cache_state
EntryCacheState(de, qtype, t) ==
    IF qtype \notin DOMAIN de.record_types THEN "NotCached"
    ELSE LET set == de.record_types[qtype]
         IN  IF set.kind = "Records"
             THEN IF \E e \in set.records : IsValid(e, t)
                  THEN "PositiveCache" ELSE "NotCached"
             ELSE IF set.timestamp + set.ttl > t
                  THEN "NegativeCache" ELSE "NotCached"

\* a fill_query_result without the is_valid filter
EntryAllRecords(de, qtype, t) ==
    IF qtype \in DOMAIN de.record_types /\ de.record_types[qtype].kind = "Records"
    THEN {e.record : e \in de.record_types[qtype].records}
    ELSE {}

\* DomainEntry::fill_query_result: the valid records of the set, which a HashSet
\* yields in no particular order
EntryValidRecords(de, qtype, t) ==
    IF qtype \in DOMAIN de.record_types /\ de.record_types[qtype].kind = "Records"
    THEN {e.record : e \in {x \in de.record_types[qtype].records : IsValid(x, t)}}
    ELSE {}

\* a get_or_create_entry on a map that holds one owner at a time
GetOrCreateAlone(c, qname) ==
    MapPut(EmptyMap, qname, IF qname \in DOMAIN c THEN c[qname] ELSE NewDomainEntry)

\* Cache::get_or_create_entry
GetOrCreateEntry(c, qname) ==
    IF qname \in DOMAIN c THEN c ELSE MapPut(c, qname, NewDomainEntry)

\* Cache::get_cache_state
CacheState(c, qname, qtype, t) ==
    IF qname \in DOMAIN c THEN EntryCacheState(c[qname], qtype, t) ELSE "NotCached"

\* Cache::fill_queryresult
CacheValidRecords(c, qname, qtype, t) ==
    IF qname \in DOMAIN c THEN EntryValidRecords(c[qname], qtype, t) ELSE {}

\* the orders in which a set can be iterated
RECURSIVE Orders(_)
Orders(S) ==
    IF S = {} THEN {<<>>}
    ELSE UNION {{<<x>> \o o : o \in Orders(S \ {x})} : x \in S}

\* Cache::lookup: every value the call can return at time t
LookupOutcomes(c, qname, qtype, t) ==
    LET st == CacheState(c, qname, qtype, t)
    IN  IF st = "PositiveCache"
        THEN {SomePacket([NewPacket EXCEPT !.answers = a, !.authorities = n]) :
                a \in Orders(CacheValidRecords(c, qname, qtype, t)),
                n \in Orders(CacheValidRecords(c, qname, QT_NS, t))}
        ELSE IF st = "NegativeCache"
        THEN {SomePacket([NewPacket EXCEPT !.header.rescode = NXDOMAIN])}
        ELSE {NoPacket}

\* Cache::store: each record with a domain is stored in its owner's entry, in turn
RECURSIVE StoreAll(_, _, _)
StoreAll(c, records, t) ==
    IF records = <<>> THEN c
    ELSE LET rec == Head(records)
             c1 == GetOrCreateEntry(c, rec.domain)
         IN  IF rec.qtype = QT_OPT                       \* get_domain() is None
             THEN StoreAll(c, Tail(records), t)
             ELSE StoreAll([c1 EXCEPT ![rec.domain] = StoreRecord(@, rec, t)],
                           Tail(records), t)

\* Cache::store_nxdomain
StoreNxdomain(c, qname, qtype, ttl, t) ==
    LET c1 == GetOrCreateEntry(c, qname)
    IN  [c1 EXCEPT ![qname] = StoreNxdomainEntry(@, qtype, ttl, t)]

(***************************************************************************)
(* The state of each part before any call                                  *)
(***************************************************************************)
\* lastStore follows one store call, store([rec]) or store_nxdomain(qname,
\* qtype, ttl), made at t0, for as long as no later call stores for the same
\* owner and type
NoStore ==
    [kind |-> "none", qname |-> <<>>, qtype |-> 0, rec |-> Rec(0, <<>>, <<>>, 0),
     ttl |-> 0, t0 |-> 0]

\* no lookup has returned since the cache or the clock last changed
NoLookup == [called |-> FALSE, qname |-> <<>>, qtype |-> 0, out |-> NoPacket]

\* Cache::new, before any call
CacheIdle ==
    /\ cache = EmptyMap
    /\ now = 0
    /\ lastStore = NoStore
    /\ lookupRes = NoLookup

MaxCalls == 3          \* send_udp_query calls made
MaxTcp == 1            \* send_tcp_query calls made

Calls == 1..MaxCalls

\* Result<DnsPacket, ClientError> of a call that has not returned
NoResult == [kind |-> "None", packet |-> NewPacket]

\* a call not yet made; chan is the mpsc channel(1) of Option<DnsPacket>, sent,
\* failed and fired record what the call added to total_sent and total_failed
\* and whether a message was put on its channel
NewCall ==
    [pc |-> "idle", qname |-> <<>>, id |-> 0, chan |-> <<>>, result |-> NoResult,
     sent |-> 0, failed |-> 0, fired |-> FALSE]

\* DnsNetworkClient::new; mutex is the call that holds the lock of
\* pending_queries, None while it is free
NewClient ==
    [total_sent |-> 0, total_failed |-> 0, seq |-> 0, pending_queries |-> <<>>,
     mutex |-> None]

ClientIdle ==
    /\ client = NewClient
    /\ calls = [c \in Calls |-> NewCall]
    /\ wire = {}
    /\ inbox = {}

MaxStorers == 2        \* tasks calling SynchronizedCache::store, once each
MaxReaders == 1        \* tasks calling SynchronizedCache::lookup, again and again

NewStorer == [pc |-> "idle", batch |-> <<>>, i |-> 0]

NewReader == [pc |-> "idle", qname |-> <<>>, qtype |-> 0, returned |-> FALSE, out |-> NoPacket]

\* SynchronizedCache::new
SyncIdle ==
    /\ lock = [writing |-> FALSE, readers |-> 0, poisoned |-> FALSE]
    /\ storers = [t \in 1..MaxStorers |-> NewStorer]
    /\ readers = [t \in 1..MaxReaders |-> NewReader]
    /\ held = {}
    /\ storeLog = {}

\* Result<DnsPacket, ResolveError> of a resolve call that has not returned
NoResolve == [kind |-> "None", packet |-> NewPacket]

\* RecursiveDnsResolver::new, no resolve call made
ResolverIdle ==
    resolver = [pc |-> "idle", call |-> <<>>, stack |-> <<>>, result |-> NoResolve,
                t0 |-> 0]

\* the packet p built, not written yet
NewCodec(p) ==
    [pc |-> "new", before |-> p, packet |-> p, max_size |-> 0,
     buffer |-> NewVectorBuffer, werr |-> "None", parsed |-> NewPacket,
     rerr |-> "None", writes |-> 0, emitted |-> 0]

\* no packet built
CodecIdle == codec = [NewCodec(NewPacket) EXCEPT !.pc = "idle"]

(***************************************************************************)
(* The Cache driven as its tests drive it: store, store_nxdomain, lookup,  *)
(* and time passing between the calls                                      *)
(***************************************************************************)
MaxTime == 2           \* the clock runs from 0 to MaxTime
MaxTtl == 1            \* TTLs are 0..MaxTtl

\* "a.io", "ns.io"
NameA == <<<<97>>, <<105, 111>>>>
NameNs == <<<<110, 115>>, <<105, 111>>>>

CacheNames == {NameA}

CacheTypes == {QT_A, QT_NS}

\* the records stored, each with every TTL: two addresses of a.io and a
\* nameserver of a.io
CacheRecords ==
    {Rec(k.qtype, k.domain, k.data, ttl) :
        k \in {[qtype |-> QT_A, domain |-> NameA, data |-> <<1>>],
               [qtype |-> QT_A, domain |-> NameA, data |-> <<2>>],
               [qtype |-> QT_NS, domain |-> NameA, data |-> <<NameNs>>]},
        ttl \in 0..MaxTtl}

\* the batches of one store call: one record, or two
CacheBatches ==
    {<<r>> : r \in CacheRecords} \cup {<<r, s>> : r \in CacheRecords, s \in CacheRecords}

StoredRecord(rec, t) ==
    [kind |-> "record", qname |-> rec.domain, qtype |-> rec.qtype, rec |-> rec,
     ttl |-> rec.ttl, t0 |-> t]

StoredNxdomain(qname, qtype, ttl, t) ==
    [NoStore EXCEPT !.kind = "nxdomain", !.qname = qname, !.qtype = qtype,
                    !.ttl = ttl, !.t0 = t]

\* the batch stores for the owner and type that lastStore follows
Touches(batch, last) ==
    \E i \in 1..Len(batch) :
        batch[i].domain = last.qname /\ batch[i].qtype = last.qtype

\* cache.store(&batch)
CacheStore(batch) ==
    /\ cache' = StoreAll(cache, batch, now)
    /\ \/ lastStore' = IF Len(batch) = 1 THEN StoredRecord(batch[1], now) ELSE NoStore
       \/ ~Touches(batch, lastStore) /\ lastStore' = lastStore
    /\ lookupRes' = NoLookup
    /\ UNCHANGED <<now, nonCacheVars>>

\* cache.store_nxdomain(qname, qtype, ttl)
CacheStoreNxdomain(qname, qtype, ttl) ==
    /\ cache' = StoreNxdomain(cache, qname, qtype, ttl, now)
    /\ \/ lastStore' = StoredNxdomain(qname, qtype, ttl, now)
       \/ ~(qname = lastStore.qname /\ qtype = lastStore.qtype) /\ lastStore' = lastStore
    /\ lookupRes' = NoLookup
    /\ UNCHANGED <<now, nonCacheVars>>

\* cache.lookup(qname, qtype)
CacheLookup(qname, qtype) ==
    /\ \E out \in LookupOutcomes(cache, qname, qtype, now) :
          lookupRes' = [called |-> TRUE, qname |-> qname, qtype |-> qtype, out |-> out]
    /\ UNCHANGED <<cache, now, lastStore, nonCacheVars>>

\* a second passes
Tick ==
    /\ now < MaxTime
    /\ now' = now + 1
    /\ lookupRes' = NoLookup
    /\ UNCHANGED <<cache, lastStore, nonCacheVars>>

InitCache ==
    /\ BufIdle
    /\ CacheIdle
    /\ ClientIdle
    /\ SyncIdle
    /\ ResolverIdle
    /\ CodecIdle

NextCache ==
    \/ \E batch \in CacheBatches : CacheStore(batch)
    \/ \E qname \in CacheNames, qtype \in CacheTypes, ttl \in 0..MaxTtl :
          CacheStoreNxdomain(qname, qtype, ttl)
    \/ \E qname \in CacheNames, qtype \in CacheTypes : CacheLookup(qname, qtype)
    \/ Tick

SpecCache == InitCache /\ [][NextCache]_vars

\* ---- specification: the cache with two owners, a.io and ns.io: one record
\* per store call, each with a TTL that outlasts a negative entry
NextOwners ==
    \/ \E k \in {[qtype |-> QT_A, domain |-> NameA, data |-> <<1>>],
                  [qtype |-> QT_NS, domain |-> NameA, data |-> <<NameNs>>],
                  [qtype |-> QT_A, domain |-> NameNs, data |-> <<9>>]} :
          CacheStore(<<Rec(k.qtype, k.domain, k.data, MaxTtl + 1)>>)
    \/ \E qname \in {NameA, NameNs} : CacheStoreNxdomain(qname, QT_A, MaxTtl)
    \/ \E qname \in {NameA, NameNs}, qtype \in CacheTypes : CacheLookup(qname, qtype)
    \/ Tick

SpecOwners == InitCache /\ [][NextOwners]_vars

(***************************************************************************)
(* Name encode / decode runs on one VectorPacketBuffer, as the tests of    *)
(* buffer.rs drive them (test_qname, test_write_qname, test_read_qname).    *)
(***************************************************************************)
MaxNames == 3          \* names written into one buffer
MaxCraftLen == 4       \* length of a hand-built buffer
MaxJumpCount == 65     \* jumps one decode is followed for
MaxReads == 2          \* read_qname calls on a hand-built buffer
FillCount == 65        \* filler names written before the names under test

\* the valid names of at most two labels out of 'a', 'B', "co", the empty name
\* included, and the names of one label of 63 and of 64 octets
\* (test_write_qname_maximum_length_label)
Names ==
    SeqsUpTo({<<97>>, <<66>>, <<99, 111>>}, 2)
        \cup {<<[i \in 1..n |-> 97]>> : n \in {63, 64}}

\* the k-th filler name: three 63-octet labels and a 61-octet label that holds
\* k, 255 octets on the wire; no two filler names share a suffix (k < 676)
FillName(k) ==
    << [i \in 1..63 |-> 97], [i \in 1..63 |-> 97], [i \in 1..63 |-> 97],
       [i \in 1..61 |-> IF i = 1 THEN 97 + (k % 26)
                        ELSE IF i = 2 THEN 97 + (k \div 26)
                        ELSE 97] >>

\* buffers of 0, a length of 1, 'a', 'A', and the octets 0x40, 0xC0
CraftedBuffers == SeqsUpTo({0, 1, 97, 65, 64, 192}, MaxCraftLen) \ {<<>>}

\* buffer.write_qname(name): the buffer keeps what was written even on Err
WriteName(name) ==
    /\ bphase = "write"
    /\ Len(written) < MaxNames
    /\ LET r == WriteQname(buffer, name)
       IN  /\ buffer' = r.buf
           /\ written' = IF r.err = "Ok" THEN Append(written, name) ELSE written
    /\ UNCHANGED <<rq, bphase, decoded, nonBufVars>>

\* buffer.write_qname of the next filler name
FillWrite ==
    /\ bphase = "fill"
    /\ LET k == Len(written)
           r == WriteQname(buffer, FillName(k))
       IN  /\ buffer' = r.buf
           /\ written' = Append(written, FillName(k))
           /\ bphase' = IF k + 1 = FillCount THEN "tail" ELSE "fill"
    /\ UNCHANGED <<rq, decoded, nonBufVars>>

\* the names under test, written after the filler: short names, twice each at most
TailWrite(name) ==
    /\ bphase = "tail"
    /\ Len(written) < FillCount + 2
    /\ LET r == WriteQname(buffer, name)
       IN  /\ r.err = "Ok"
           /\ buffer' = r.buf
           /\ written' = Append(written, name)
    /\ UNCHANGED <<rq, bphase, decoded, nonBufVars>>

\* buffer.seek(0) (or buffer.pos = 0) before reading back
SeekStart ==
    /\ bphase \in {"write", "tail"}
    /\ written # <<>>
    /\ buffer' = VecSeek(buffer, 0)
    /\ bphase' = "read"
    /\ UNCHANGED <<rq, written, decoded, nonBufVars>>

\* entry of read_qname: let mut pos = self.pos()
ReadBegin ==
    /\ bphase = "read"
    /\ rq.pc = "idle"
    /\ rq' = RqStart(buffer.pos)
    /\ UNCHANGED <<buffer, bphase, written, decoded, nonBufVars>>

\* one iteration of the loop of read_qname
ReadStep ==
    /\ rq.pc = "loop"
    /\ rq.jumps < MaxJumpCount
    /\ LET n == RqStep(buffer, rq)
       IN  /\ buffer' = n.buf
           /\ rq' = n.st
    /\ UNCHANGED <<bphase, written, decoded, nonBufVars>>

\* read_qname returns; the caller goes on to the next name while it got Ok
ReadReturn(limit) ==
    /\ rq.pc = "done"
    /\ decoded' = Append(decoded, [status |-> rq.status, name |-> rq.out])
    /\ rq' = RqIdle
    /\ bphase' = IF rq.status # "Ok" \/ Len(decoded) + 1 >= limit THEN "done" ELSE "read"
    /\ UNCHANGED <<buffer, written, nonBufVars>>

\* ---- specification: names written with write_qname, then read back in order
InitQname ==
    /\ CacheIdle
    /\ ClientIdle
    /\ SyncIdle
    /\ ResolverIdle
    /\ CodecIdle
    /\ buffer = NewVectorBuffer
    /\ rq = RqIdle
    /\ bphase = "write"
    /\ written = <<>>
    /\ decoded = <<>>

NextQname ==
    \/ \E name \in Names : WriteName(name)
    \/ SeekStart
    \/ ReadBegin
    \/ ReadStep
    \/ ReadReturn(Len(written))

SpecQname == InitQname /\ [][NextQname]_vars

\* ---- specification: the same, after FillCount filler names
InitFill ==
    /\ CacheIdle
    /\ ClientIdle
    /\ SyncIdle
    /\ ResolverIdle
    /\ CodecIdle
    /\ buffer = NewVectorBuffer
    /\ rq = RqIdle
    /\ bphase = "fill"
    /\ written = <<>>
    /\ decoded = <<>>

NextFill ==
    \/ FillWrite
    \/ \E name \in {<<<<97>>>>} : TailWrite(name)
    \/ SeekStart
    \/ ReadBegin
    \/ ReadStep
    \/ ReadReturn(Len(written))

SpecFill == InitFill /\ [][NextFill]_vars

\* ---- specification: read_qname on hand-built buffers (test_read_qname_*)
InitRead ==
    /\ CacheIdle
    /\ ClientIdle
    /\ SyncIdle
    /\ ResolverIdle
    /\ CodecIdle
    /\ \E bs \in CraftedBuffers :
          buffer = [NewVectorBuffer EXCEPT !.bytes = bs]
    /\ rq = RqIdle
    /\ bphase = "read"
    /\ written = <<>>
    /\ decoded = <<>>

NextRead ==
    \/ ReadBegin
    \/ ReadStep
    \/ ReadReturn(MaxReads)

SpecRead == InitRead /\ [][NextRead]_vars

(***************************************************************************)
(* network_client.rs : send_udp_query, step by step between its awaits,    *)
(* send_tcp_query, the upstream, and the receive side of the socket.  The  *)
(* timestamp of a PendingQuery is never read and is left out; the mutex is *)
(* never poisoned, no holder panics.                                       *)
(***************************************************************************)
\* valid and invalid query names: "a.io", "a_"
ClientNames == {NameA, <<<<97, 95>>>>}

\* self.seq.fetch_add(1) as u16
AllocId(seq) == seq % 65536

\* an entry pushed with the sequence number that follows the packet's id
RegisterNextSeq(pending, id, c) == Append(pending, [seq |-> AllocId(id + 1), tx |-> c])

\* a locked block that pushes nothing
RegisterNothing(pending, id, c) == pending

\* pending_queries.push(PendingQuery {seq: packet.header.id, timestamp, tx})
Register(pending, id, c) == Append(pending, [seq |-> id, tx |-> c])

\* the response of the upstream to the query with that id
Response(id) == [NewPacket EXCEPT !.header.id = id, !.header.response = TRUE]

\* a call returns: its result is set and its receiver dropped
Return(call, kind, packet) ==
    [call EXCEPT !.pc = "done", !.result = [kind |-> kind, packet |-> packet]]

\* a match that counts no failure when the wait times out
CompletedUncounted(call, r, msg) ==
    IF r = "Elapsed" THEN Return(call, "TimeOut", NewPacket)
    ELSE IF r = "Closed" THEN Return([call EXCEPT !.failed = @ + 1], "LookupFailed", NewPacket)
    ELSE IF msg.some THEN Return(call, "Ok", msg.packet)
    ELSE Return([call EXCEPT !.failed = @ + 1], "TimeOut", NewPacket)

\* the match on time::timeout(3 s, rx.recv()): r is "Elapsed", "Closed" (every
\* sender dropped) or "Message", with msg the Option<DnsPacket> received
Completed(call, r, msg) ==
    IF r = "Elapsed" THEN Return([call EXCEPT !.failed = @ + 1], "TimeOut", NewPacket)
    ELSE IF r = "Closed" THEN Return([call EXCEPT !.failed = @ + 1], "LookupFailed", NewPacket)
    ELSE IF msg.some THEN Return(call, "Ok", msg.packet)
    ELSE Return([call EXCEPT !.failed = @ + 1], "TimeOut", NewPacket)

\* the call's sender lives in an entry of pending_queries
HasSender(c) ==
    \E i \in 1..Len(client.pending_queries) : client.pending_queries[i].tx = c

\* send_udp_query up to the end of the locked block: count, allocate the id,
\* lock, register, and drop the guard at the end of the block, before the
\* first await.  Calls are made in the order of their numbers.
UdpRegister(c, qname) ==
    /\ calls[c].pc = "idle"
    /\ \A d \in Calls : d < c => calls[d].pc # "idle"
    /\ client.mutex = None                                \* lock() is granted
    /\ LET id == AllocId(client.seq)
       IN  /\ client' = [client EXCEPT !.total_sent = @ + 1,
                                       !.seq = @ + 1,
                                       !.pending_queries = Register(@, id, c),
                                       !.mutex = None]
           /\ calls' = [calls EXCEPT ![c] =
                          [@ EXCEPT !.pc = "registered", !.qname = qname, !.id = id,
                                    !.sent = @ + 1]]
    /\ UNCHANGED <<wire, inbox, nonClientVars>>

\* packet.write(&mut req_buffer, 512)? and socket.send_to(..).await?: an invalid
\* name or a socket error returns at once, otherwise the datagram leaves
UdpSend(c, sendOk) ==
    /\ calls[c].pc = "registered"
    /\ IF WriteQname(NewVectorBuffer, calls[c].qname).err # "Ok"
       THEN /\ calls' = [calls EXCEPT ![c] = Return(@, "Protocol", NewPacket)]
            /\ wire' = wire
       ELSE IF ~sendOk
       THEN /\ calls' = [calls EXCEPT ![c] = Return(@, "Io", NewPacket)]
            /\ wire' = wire
       ELSE /\ calls' = [calls EXCEPT ![c].pc = "waiting"]
            /\ wire' = wire \cup {calls[c].id}
    /\ UNCHANGED <<client, inbox, nonClientVars>>

\* rx.recv() completes: a message is taken, or every sender is gone
UdpRecv(c) ==
    /\ calls[c].pc = "waiting"
    /\ calls[c].chan # <<>> \/ ~HasSender(c)
    /\ LET r == IF calls[c].chan # <<>> THEN "Message" ELSE "Closed"
           msg == IF calls[c].chan # <<>> THEN Head(calls[c].chan) ELSE NoPacket
           done == Completed([calls[c] EXCEPT !.chan = <<>>], r, msg)
       IN  /\ calls' = [calls EXCEPT ![c] = done]
           /\ client' = [client EXCEPT !.total_failed = @ + (done.failed - calls[c].failed)]
    /\ UNCHANGED <<wire, inbox, nonClientVars>>

\* the 3 seconds elapse with nothing received
UdpTimeout(c) ==
    /\ calls[c].pc = "waiting"
    /\ calls[c].chan = <<>>
    /\ HasSender(c)
    /\ LET done == Completed(calls[c], "Elapsed", NoPacket)
       IN  /\ calls' = [calls EXCEPT ![c] = done]
           /\ client' = [client EXCEPT !.total_failed = @ + (done.failed - calls[c].failed)]
    /\ UNCHANGED <<wire, inbox, nonClientVars>>

\* send_tcp_query: counts and takes a sequence number; the exchange is on a
\* connection of its own (at most MaxTcp of them besides the send_udp_query
\* calls made so far)
TcpQuery ==
    /\ client.total_sent - Cardinality({c \in Calls : calls[c].pc # "idle"}) < MaxTcp
    /\ client' = [client EXCEPT !.total_sent = @ + 1, !.seq = @ + 1]
    /\ UNCHANGED <<calls, wire, inbox, nonClientVars>>

\* the upstream answers a query it was sent (any number of times, at any time)
UpstreamReply(id) ==
    /\ id \in wire
    /\ id \notin inbox
    /\ inbox' = inbox \cup {id}
    /\ UNCHANGED <<client, calls, wire, nonClientVars>>

\* the demultiplexer (DnsClient::run, declared in the trait and called by
\* ServerContext::initialize): a datagram is read and decoded, the first pending
\* entry with its id is sent the packet and removed; with no such entry the
\* packet is discarded.  A send to a call that has returned fails.
Demux(id) ==
    /\ id \in inbox
    /\ inbox' = inbox \ {id}
    /\ LET pending == client.pending_queries
           ms == {i \in 1..Len(pending) : pending[i].seq = id}
       IN  IF ms = {}
           THEN UNCHANGED <<client, calls>>
           ELSE LET i == CHOOSE x \in ms : \A y \in ms : x <= y
                    c == pending[i].tx
                IN  /\ client' = [client EXCEPT !.pending_queries =
                                                 SubSeq(@, 1, i - 1) \o SubSeq(@, i + 1, Len(@))]
                    /\ calls' = IF calls[c].pc # "done" /\ calls[c].chan = <<>>
                                THEN [calls EXCEPT ![c].chan = <<SomePacket(Response(id))>>,
                                                   ![c].fired = TRUE]
                                ELSE calls
    /\ UNCHANGED <<wire, nonClientVars>>

InitClient ==
    /\ BufIdle
    /\ CacheIdle
    /\ ClientIdle
    /\ SyncIdle
    /\ ResolverIdle
    /\ CodecIdle

NextClient ==
    \/ \E c \in Calls, qname \in ClientNames : UdpRegister(c, qname)
    \/ \E c \in Calls, sendOk \in BOOLEAN : UdpSend(c, sendOk)
    \/ \E c \in Calls : UdpRecv(c)
    \/ \E c \in Calls : UdpTimeout(c)
    \/ TcpQuery
    \/ \E id \in wire : UpstreamReply(id)
    \/ \E id \in inbox : Demux(id)

SpecClient == InitClient /\ [][NextClient]_vars

\* the runtime completes a wait that can complete: a message in the channel is
\* received, a timer that has run out fires
SpecClientFair ==
    /\ SpecClient
    /\ \A c \in Calls : WF_vars(UdpRecv(c)) /\ WF_vars(UdpTimeout(c))

(***************************************************************************)
(* memory_cache.rs : SynchronizedCache (lines 231-264).  Tasks call store, *)
(* lookup and list; Cache::store runs record by record under the write     *)
(* lock, and Arc::get_mut(entry).unwrap() panics on an entry whose Arc a    *)
(* caller of list() still holds, which poisons the lock.                   *)
(***************************************************************************)
\* "b.io"
NameB == <<<<98>>, <<105, 111>>>>

\* two addresses of a.io and one of b.io, valid for a second
SyncRecords ==
    {Rec(QT_A, NameA, <<1>>, 1), Rec(QT_A, NameA, <<2>>, 1), Rec(QT_A, NameB, <<1>>, 1)}

SyncBatches ==
    {<<r>> : r \in SyncRecords} \cup {<<r, s>> : r \in SyncRecords, s \in SyncRecords}

\* a reader that is admitted while a writer holds the lock
CanReadAlways(l) == TRUE

\* RwLock::read is granted when no writer holds the lock
CanRead(l) == ~l.writing

\* RwLock::write is granted when nobody holds the lock
CanWrite(l) == ~l.writing /\ l.readers = 0

\* SynchronizedCache::store: self.cache.write(), Err(PoisonedLock) when poisoned
SyncStoreAcquire(t, batch) ==
    /\ storers[t].pc = "idle"
    /\ \A u \in 1..MaxStorers : u < t => storers[u].pc # "idle"
    /\ CanWrite(lock)
    /\ IF lock.poisoned
       THEN /\ storers' = [storers EXCEPT ![t] = [@ EXCEPT !.pc = "failed", !.batch = batch]]
            /\ UNCHANGED <<lock, storeLog>>
       ELSE /\ storers' = [storers EXCEPT ![t] = [pc |-> "storing", batch |-> batch, i |-> 1]]
            /\ lock' = [lock EXCEPT !.writing = TRUE]
            /\ storeLog' = storeLog \cup {batch}
    /\ UNCHANGED <<cache, readers, held, nonSyncVars>>

\* Cache::store, one iteration of its loop: the record's entry is found or
\* created and the record stored in it; the unwrap panics when the entry
\* existed and its Arc is shared, and the guard dropped by the unwinding
\* poisons the lock
SyncStoreRecord(t) ==
    /\ storers[t].pc = "storing"
    /\ storers[t].i <= Len(storers[t].batch)
    /\ LET rec == storers[t].batch[storers[t].i]
       IN  IF rec.domain \in DOMAIN cache /\ rec.domain \in held
           THEN /\ storers' = [storers EXCEPT ![t].pc = "panicked"]
                /\ lock' = [lock EXCEPT !.writing = FALSE, !.poisoned = TRUE]
                /\ cache' = cache
           ELSE /\ storers' = [storers EXCEPT ![t].i = @ + 1]
                /\ cache' = StoreAll(cache, <<rec>>, now)
                /\ lock' = lock
    /\ UNCHANGED <<readers, held, storeLog, nonSyncVars>>

\* SynchronizedCache::store returns Ok(()): the write guard is dropped
SyncStoreReturn(t) ==
    /\ storers[t].pc = "storing"
    /\ storers[t].i > Len(storers[t].batch)
    /\ storers' = [storers EXCEPT ![t].pc = "done"]
    /\ lock' = [lock EXCEPT !.writing = FALSE]
    /\ UNCHANGED <<cache, readers, held, storeLog, nonSyncVars>>

\* SynchronizedCache::lookup: self.cache.read().ok()?, None when poisoned
SyncLookupAcquire(t, qname, qtype) ==
    /\ readers[t].pc = "idle"
    /\ CanRead(lock)
    /\ IF lock.poisoned
       THEN /\ readers' = [readers EXCEPT ![t] =
                             [pc |-> "idle", qname |-> qname, qtype |-> qtype,
                              returned |-> TRUE, out |-> NoPacket]]
            /\ lock' = lock
       ELSE /\ readers' = [readers EXCEPT ![t] =
                             [pc |-> "reading", qname |-> qname, qtype |-> qtype,
                              returned |-> FALSE, out |-> NoPacket]]
            /\ lock' = [lock EXCEPT !.readers = @ + 1]
    /\ UNCHANGED <<cache, storers, held, storeLog, nonSyncVars>>

\* cache.lookup(qname, qtype) under the read guard, which is dropped on return
SyncLookupReturn(t) ==
    /\ readers[t].pc = "reading"
    /\ \E out \in LookupOutcomes(cache, readers[t].qname, readers[t].qtype, now) :
          readers' = [readers EXCEPT ![t] = [@ EXCEPT !.pc = "idle", !.returned = TRUE,
                                                      !.out = out]]
    /\ lock' = [lock EXCEPT !.readers = @ - 1]
    /\ UNCHANGED <<cache, storers, held, storeLog, nonSyncVars>>

\* SynchronizedCache::list: the Arcs of all entries are cloned under the read
\* lock and handed to the caller
SyncList ==
    /\ held = {}
    /\ CanRead(lock)
    /\ ~lock.poisoned
    /\ DOMAIN cache # {}
    /\ held' = DOMAIN cache
    /\ UNCHANGED <<cache, lock, storers, readers, storeLog, nonSyncVars>>

\* the caller of list() drops the vector
SyncListDrop ==
    /\ held # {}
    /\ held' = {}
    /\ UNCHANGED <<cache, lock, storers, readers, storeLog, nonSyncVars>>

InitSync ==
    /\ BufIdle
    /\ CacheIdle
    /\ ClientIdle
    /\ SyncIdle
    /\ ResolverIdle
    /\ CodecIdle

NextSync ==
    \/ \E t \in 1..MaxStorers, batch \in SyncBatches : SyncStoreAcquire(t, batch)
    \/ \E t \in 1..MaxStorers : SyncStoreRecord(t)
    \/ \E t \in 1..MaxStorers : SyncStoreReturn(t)
    \/ \E t \in 1..MaxReaders, qname \in {NameA, NameB} : SyncLookupAcquire(t, qname, QT_A)
    \/ \E t \in 1..MaxReaders : SyncLookupReturn(t)
    \/ SyncList
    \/ SyncListDrop

SpecSync == InitSync /\ [][NextSync]_vars

(***************************************************************************)
(* resolve.rs, recursive_resolver.rs : resolve and the recursive perform.  *)
(* One action per upstream query: the code between two awaits of the       *)
(* client.  The Authority holds no zone (query returns None) and recursion *)
(* is allowed, as ServerContext::new sets it; the *_async calls on cache   *)
(* and client are the calls of SynchronizedCache and DnsClient.            *)
(***************************************************************************)
MaxQueries == 17       \* upstream queries one perform invocation is followed for

MaxDepth == 2          \* perform invocations nested by resolve(ns-host, A, true)

\* a name as the source's string: its labels joined by '.'
RECURSIVE Str(_)
Str(name) ==
    IF name = <<>> THEN <<>>
    ELSE IF Len(name) = 1 THEN name[1]
    ELSE name[1] \o <<46>> \o Str(Tail(name))

\* str::ends_with
EndsWith(a, b) ==
    Len(b) <= Len(a) /\ SubSeq(a, Len(a) - Len(b) + 1, Len(a)) = b

\* DnsPacket::get_ttl_from_soa: the minimum of each SOA in authorities; the
\* first is the value returned
TtlFromSoa(p) ==
    LET IsSoa(r) == r.qtype = QT_SOA
        soas == SelectSeq(p.authorities, IsSoa)
    IN  [i \in 1..Len(soas) |-> soas[i].data[7]]

\* DnsPacket::get_random_a: the address of each A record in answers; the first
\* is the value returned
RandomA(p) ==
    LET IsA(r) == r.qtype = QT_A
        as == SelectSeq(p.answers, IsA)
    IN  [i \in 1..Len(as) |-> as[i].data[1]]

\* DnsPacket::get_unresolved_ns: the host of each NS record in authorities whose
\* owner qname ends with
UnresolvedNs(p, qname) ==
    LET Matches(r) == r.qtype = QT_NS /\ EndsWith(Str(qname), Str(r.domain))
        nss == SelectSeq(p.authorities, Matches)
    IN  [i \in 1..Len(nss) |-> nss[i].data[1]]

\* DnsPacket::get_resolved_ns: for each such NS record that has an A record of
\* its host in resources, the first such address
ResolvedNs(p, qname) ==
    LET Glue(host) ==
            LET IsGlue(r) == r.qtype = QT_A /\ r.domain = host
            IN  SelectSeq(p.resources, IsGlue)
        Matches(r) ==
            r.qtype = QT_NS /\ EndsWith(Str(qname), Str(r.domain)) /\ Glue(r.data[1]) # <<>>
        nss == SelectSeq(p.authorities, Matches)
    IN  [i \in 1..Len(nss) |-> Glue(nss[i].data[1])[1].data[1]]

\* resolve.rs, create_error_response
ErrorResponse(rescode) == [NewPacket EXCEPT !.header.rescode = rescode]

\* the three store calls on the sections of a response
StoreSections(c, p, t) ==
    StoreAll(StoreAll(StoreAll(c, p.answers, t), p.authorities, t), p.resources, t)

\* perform, the for loop from label index idx: every value tentative_ns can
\* take (None when no suffix has a cached NS with a cached address)
RECURSIVE Seeds(_, _, _, _)
Seeds(c, labels, idx, t) ==
    IF idx > Len(labels) + 1
    THEN {None}
    ELSE LET domain == SubSeq(labels, idx, Len(labels))
             ForHost(host) ==
                 UNION {LET addrs == IF ar.some THEN RandomA(ar.packet) ELSE <<>>
                        IN  IF addrs = <<>> THEN Seeds(c, labels, idx + 1, t)
                            ELSE {addrs[1]} :
                        ar \in LookupOutcomes(c, host, QT_A, t)}
         IN  UNION {LET hosts == IF qr.some THEN UnresolvedNs(qr.packet, domain) ELSE <<>>
                    IN  IF hosts = <<>> THEN Seeds(c, labels, idx + 1, t)
                        ELSE ForHost(hosts[1]) :
                    qr \in LookupOutcomes(c, domain, QT_NS, t)}

\* a resolve that consults the cache before it refuses
PreambleCacheFirst(c, qname, qtype, recursion, allow_recursive, t) ==
    LET first == LookupOutcomes(c, qname, qtype, t)
    IN  IF NoPacket \notin first THEN first
        ELSE IF ~recursion \/ ~allow_recursive
        THEN {SomePacket(ErrorResponse(REFUSED))}
        ELSE {NoPacket}

\* a resolve without the second lookup, for CNAME
PreambleNoCname(c, qname, qtype, recursion, allow_recursive, t) ==
    IF ~recursion \/ ~allow_recursive
    THEN {SomePacket(ErrorResponse(REFUSED))}
    ELSE LookupOutcomes(c, qname, qtype, t)

\* resolve before perform (resolve.rs lines 26-54): every packet it can return,
\* NoPacket standing for "goes on to perform"
Preamble(c, qname, qtype, recursion, allow_recursive, t) ==
    IF qtype \notin {QT_A, QT_NS, QT_CNAME, QT_SOA, QT_MX, QT_TXT, QT_AAAA, QT_SRV, QT_OPT}
    THEN {SomePacket(ErrorResponse(NOTIMP))}
    ELSE IF ~recursion \/ ~allow_recursive
    THEN {SomePacket(ErrorResponse(REFUSED))}
    ELSE LET first == LookupOutcomes(c, qname, qtype, t)
         IN  {r \in first : r.some}
             \cup (IF NoPacket \in first
                   THEN IF qtype \in {QT_A, QT_AAAA}
                        THEN LookupOutcomes(c, qname, QT_CNAME, t)
                        ELSE {NoPacket}
                   ELSE {})

NewFrame(qname, qtype, ns) ==
    [qname |-> qname, qtype |-> qtype, ns |-> ns, sent |-> 0, last |-> NewPacket]

\* the innermost perform returns result to its caller: the resolve call itself
\* when it is the only one, else the perform that awaits resolve(ns-host, A,
\* true), which takes an address from the answer and goes on, or returns the
\* response it holds, or passes the error on
RECURSIVE Unwind(_, _)
Unwind(stack, result) ==
    IF Len(stack) = 1
    THEN [pc |-> "done", stack |-> <<>>, result |-> result]
    ELSE LET caller == stack[2]
             rest == Tail(stack)
         IN  IF result.kind # "Ok"
             THEN Unwind(rest, result)
             ELSE IF RandomA(result.packet) # <<>>
             THEN [pc |-> "perform",
                   stack |-> <<[caller EXCEPT !.ns = RandomA(result.packet)[1]]>> \o Tail(rest),
                   result |-> NoResolve]
             ELSE Unwind(rest, [kind |-> "Ok", packet |-> caller.last])

\* resolve(qname, qtype, recursion) is called on the resolver of the strategy,
\* in a context with allow_recursive; it returns at once, or goes on to perform:
\* the recursive one with the nameserver the cache gives, the forwarding one
\* with its server
Resolve(qname, qtype, recursion, allow_recursive, strategy) ==
    /\ resolver.pc \in {"idle", "done"}
    /\ LET call == <<qname, qtype, recursion, allow_recursive, strategy>>
           Returns(kind, packet) ==
               resolver' = [pc |-> "done", call |-> call, stack |-> <<>>,
                            result |-> [kind |-> kind, packet |-> packet], t0 |-> now]
           Performs(pc, ns) ==
               resolver' = [pc |-> pc, call |-> call,
                            stack |-> <<NewFrame(qname, qtype, ns)>>,
                            result |-> NoResolve, t0 |-> now]
       IN  \E pre \in Preamble(cache, qname, qtype, recursion, allow_recursive, now) :
              IF pre.some
              THEN Returns("Ok", pre.packet)
              ELSE IF strategy = "Forward"
              THEN Performs("forward", 8)
              ELSE \E ns \in Seeds(cache, qname, 1, now) :
                      IF ns = None
                      THEN Returns("NoServerFound", NewPacket)
                      ELSE Performs("perform", ns)
    /\ UNCHANGED <<cache, nonResolverVars>>

\* a perfom that sends the query again when it fails
ForwardQueryRetry(ok, response) ==
    /\ resolver.pc = "forward"
    /\ resolver' = IF ok
                   THEN [resolver EXCEPT !.pc = "done", !.stack = <<>>,
                                         !.result = [kind |-> "Ok", packet |-> response],
                                         !.t0 = now]
                   ELSE [resolver EXCEPT !.stack[1].sent = @ + 1]
    /\ resolver' # resolver
    /\ cache' = IF ok THEN StoreAll(cache, response.answers, now) ELSE cache
    /\ UNCHANGED nonResolverVars

\* ForwadingDnsResolver::perfom: the query to the server fails (ok = FALSE) or
\* is answered with response, whose answers are stored
ForwardQuery(ok, response) ==
    /\ resolver.pc = "forward"
    /\ resolver' = [resolver EXCEPT
                       !.pc = "done",
                       !.stack = <<>>,
                       !.result = IF ok THEN [kind |-> "Ok", packet |-> response]
                                  ELSE [kind |-> "Client", packet |-> NewPacket],
                       !.t0 = now]
    /\ cache' = IF ok THEN StoreAll(cache, response.answers, now) ELSE cache
    /\ UNCHANGED nonResolverVars

\* one iteration of the loop of perform (lines 64-117): the query to ns fails
\* (ok = FALSE) or is answered with response
PerformQuery(ok, response) ==
    /\ resolver.pc = "perform"
    /\ resolver.stack[1].sent < MaxQueries
    /\ LET f == [resolver.stack[1] EXCEPT !.sent = @ + 1, !.last = response]
           stack == <<f>> \o Tail(resolver.stack)
           Returns(result) ==
               LET u == Unwind(stack, result)
               IN  resolver' = [resolver EXCEPT !.pc = u.pc, !.stack = u.stack,
                                                !.result = u.result, !.t0 = now]
           Continues(ns) ==
               resolver' = [resolver EXCEPT !.stack = <<[f EXCEPT !.ns = ns]>> \o Tail(stack)]
       IN  IF ~ok
           THEN Returns([kind |-> "Client", packet |-> NewPacket]) /\ cache' = cache
           ELSE IF response.answers # <<>> /\ response.header.rescode = NOERROR
           THEN /\ cache' = StoreSections(cache, response, now)
                /\ Returns([kind |-> "Ok", packet |-> response])
           ELSE IF response.header.rescode = NXDOMAIN
           THEN /\ cache' = IF TtlFromSoa(response) # <<>>
                            THEN StoreNxdomain(cache, f.qname, f.qtype,
                                               TtlFromSoa(response)[1], now)
                            ELSE cache
                /\ Returns([kind |-> "Ok", packet |-> response])
           ELSE IF ResolvedNs(response, f.qname) # <<>>
           THEN /\ cache' = StoreSections(cache, response, now)
                /\ Continues(ResolvedNs(response, f.qname)[1])
           ELSE IF UnresolvedNs(response, f.qname) = <<>>
           THEN Returns([kind |-> "Ok", packet |-> response]) /\ cache' = cache
           ELSE \* self.resolve(&new_ns_name, QueryType::A, true)
                LET host == UnresolvedNs(response, f.qname)[1]
                IN  /\ cache' = cache
                    /\ \E pre \in Preamble(cache, host, QT_A, TRUE, TRUE, now) :
                          IF pre.some
                          THEN IF RandomA(pre.packet) # <<>>
                               THEN Continues(RandomA(pre.packet)[1])
                               ELSE Returns([kind |-> "Ok", packet |-> response])
                          ELSE \E ns \in Seeds(cache, host, 1, now) :
                                  IF ns = None
                                  THEN Returns([kind |-> "NoServerFound",
                                                packet |-> NewPacket])
                                  ELSE /\ Len(stack) < MaxDepth
                                       /\ resolver' = [resolver EXCEPT !.stack =
                                              <<NewFrame(host, QT_A, ns)>> \o stack]
    /\ UNCHANGED nonResolverVars

\* the root hints: the NS record of the root, whose host is "r", and the
\* address of that host
RootHints == <<Rec(QT_NS, <<>>, <<<<<<114>>>>>>, 3600), Rec(QT_A, <<<<114>>>>, <<1>>, 3600)>>

\* what an upstream can answer to a query for qname: an address, a CNAME to
\* b.io with the address of b.io, NXDOMAIN with an SOA of minimum 1, a referral
\* to ns.io with its address, the referral without it, nothing at all; "io" is
\* the zone the upstream delegates.  The last is a referral of another zone,
\* "o", which is no ancestor of a.io or ns.io, to ns.io without its address
UpstreamResponses(qname) ==
    LET NameIo == <<<<105, 111>>>>
    IN
    {[NewPacket EXCEPT !.answers = <<Rec(QT_A, qname, <<7>>, 60)>>],
     [NewPacket EXCEPT !.answers = <<Rec(QT_CNAME, qname, <<NameB>>, 60),
                                     Rec(QT_A, NameB, <<7>>, 60)>>],
     [NewPacket EXCEPT !.header.rescode = NXDOMAIN,
                       !.authorities = <<Rec(QT_SOA, NameIo,
                                             <<NameNs, NameNs, 1, 1, 1, 1, 1>>, 60)>>],
     [NewPacket EXCEPT !.authorities = <<Rec(QT_NS, NameIo, <<NameNs>>, 60)>>,
                       !.resources = <<Rec(QT_A, NameNs, <<9>>, 60)>>],
     [NewPacket EXCEPT !.authorities = <<Rec(QT_NS, NameIo, <<NameNs>>, 60)>>],
     NewPacket,
     [NewPacket EXCEPT !.authorities = <<Rec(QT_NS, <<<<111>>>>, <<NameNs>>, 60)>>]}

\* the cache holds the root hints, or nothing, or the delegation of io to two
\* nameservers, ns.io and b.io, and the address of ns.io
InitResolve ==
    /\ BufIdle
    /\ ClientIdle
    /\ SyncIdle
    /\ ResolverIdle
    /\ CodecIdle
    /\ cache \in {EmptyMap, StoreAll(EmptyMap, RootHints, 0),
                  StoreAll(EmptyMap, <<Rec(QT_NS, <<<<105, 111>>>>, <<NameNs>>, 3600),
                                       Rec(QT_NS, <<<<105, 111>>>>, <<NameB>>, 3600),
                                       Rec(QT_A, NameNs, <<9>>, 3600)>>, 0)}
    /\ now = 0
    /\ lastStore = NoStore
    /\ lookupRes = NoLookup

NextResolve ==
    \/ \E qtype \in {QT_A, 99}, recursion \in BOOLEAN, allow_recursive \in BOOLEAN,
          strategy \in {"Recursive", "Forward"} :
          Resolve(NameA, qtype, recursion, allow_recursive, strategy)
    \/ /\ resolver.stack # <<>>
       /\ \E response \in UpstreamResponses(resolver.stack[1].qname) :
             PerformQuery(TRUE, response)
    \/ PerformQuery(FALSE, NewPacket)
    \/ /\ resolver.stack # <<>>
       /\ \E response \in UpstreamResponses(resolver.stack[1].qname) :
             ForwardQuery(TRUE, response)
    \/ ForwardQuery(FALSE, NewPacket)
    \/ Tick

SpecResolve == InitResolve /\ [][NextResolve]_vars

(***************************************************************************)
(* protocol.rs : the wire codec of DnsHeader, DnsQuestion, DnsRecord and   *)
(* DnsPacket on a VectorPacketBuffer.  A read works on a cursor [buf, err, *)
(* val]: the buffer, the outcome so far ("Ok", a BufferError, or "Panic"   *)
(* for an index outside the Vec) and the values read; after an error every *)
(* further read leaves the cursor as it is (the ? operator).  A QueryType  *)
(* is its number, so to_num and from_num are the identity on it.  u32      *)
(* values stay below 2^31, opcode below 16 and text is ASCII in the        *)
(* packets of the model.                                                   *)
(***************************************************************************)
\* PacketBuffer::set_u16 on a VectorPacketBuffer (0-based position p)
SetU16(buf, p, val) ==
    LET old == buf.bytes
    IN  [buf EXCEPT !.bytes = [i \in 1..Len(old) |->
            IF i = p + 1 THEN (val \div 256) % 256
            ELSE IF i = p + 2 THEN val % 256
            ELSE old[i]]]

\* one field read at the cursor: read_qname ("name"), read_u16 ("u16") or
\* read_u32 ("u32"); read() indexes the Vec at pos and panics past its end
ReadField(c, kind) ==
    LET Name(r) == [buf |-> r.buf, err |-> r.st.status, val |-> Append(c.val, r.st.out)]
        Uint(n, b) ==
            IF c.buf.pos + n > Len(c.buf.bytes)
            THEN [c EXCEPT !.err = "Panic"]
            ELSE [buf |-> VecSeek(c.buf, c.buf.pos + n), err |-> "Ok",
                  val |-> Append(c.val,
                             IF n = 2 THEN b[1] * 256 + b[2]
                             ELSE b[1] * 16777216 + b[2] * 65536 + b[3] * 256 + b[4])]
    IN  IF c.err # "Ok" THEN c
        ELSE IF kind = "name"
        THEN Name(RqRun(c.buf, RqStart(c.buf.pos), Len(c.buf.bytes) + 1))
        ELSE IF kind = "u16"
        THEN Uint(2, SubSeq(c.buf.bytes, c.buf.pos + 1, c.buf.pos + 2))
        ELSE Uint(4, SubSeq(c.buf.bytes, c.buf.pos + 1, c.buf.pos + 4))

\* the fields of layout read in turn
RECURSIVE ReadFields(_, _)
ReadFields(c, layout) ==
    IF layout = <<>> THEN c
    ELSE ReadFields(ReadField(c, Head(layout)), Tail(layout))

\* get_range(pos, n) then step(n)
ReadBytes(c, n) ==
    IF c.err # "Ok" THEN c
    ELSE IF c.buf.pos + n > Len(c.buf.bytes)
    THEN [c EXCEPT !.err = "EndOfBuffer"]
    ELSE [buf |-> VecSeek(c.buf, c.buf.pos + n), err |-> "Ok",
          val |-> Append(c.val, SubSeq(c.buf.bytes, c.buf.pos + 1, c.buf.pos + n))]

\* the fields vals written in turn to w = [buf, err], each as layout says:
\* write_qname, write_u8, write_u16 or write_u32; the first error ends it
RECURSIVE WriteFields(_, _, _)
WriteFields(w, layout, vals) ==
    IF w.err # "Ok" \/ layout = <<>> THEN w
    ELSE WriteFields(
            IF Head(layout) = "name" THEN WriteQname(w.buf, Head(vals))
            ELSE [buf |-> IF Head(layout) = "u8" THEN VecWrite(w.buf, Head(vals))
                          ELSE IF Head(layout) = "u16" THEN WriteU16(w.buf, Head(vals))
                          ELSE WriteU32(w.buf, Head(vals)),
                  err |-> "Ok"],
            Tail(layout), Tail(vals))

\* the data of each DnsRecord variant as DnsRecord::write and DnsRecord::read
\* lay it out (an address is four octets; AAAA is written as eight segments and
\* read as four u32, the same octets); TXT, OPT and UNKNOWN are handled apart
Layout(qtype) ==
    CASE qtype = QT_A -> <<"u32">>
      [] qtype = QT_AAAA -> <<"u16", "u16", "u16", "u16", "u16", "u16", "u16", "u16">>
      [] qtype \in {QT_NS, QT_CNAME} -> <<"name">>
      [] qtype = QT_SRV -> <<"u16", "u16", "u16", "name">>
      [] qtype = QT_MX -> <<"u16", "name">>
      [] qtype = QT_SOA -> <<"name", "name", "u32", "u32", "u32", "u32", "u32">>
      [] OTHER -> <<>>

\* DnsRecord::write: [buf, err]; the caller takes buf.pos - start_pos as the size
WriteRecord(buf, r) ==
    LET \* the data length of a name-bearing record is written as 0 and set once
        \* the data is written
        Sized(pos, w) ==
            IF w.err # "Ok" THEN w
            ELSE [buf |-> SetU16(w.buf, pos, (w.buf.pos - (pos + 2)) % 65536),
                  err |-> "Ok"]
        Data(common) ==
            IF common.err # "Ok" THEN common
            ELSE IF r.qtype = QT_A
            THEN WriteFields(common, <<"u16", "u32">>, <<4, r.data[1]>>)
            ELSE IF r.qtype = QT_AAAA
            THEN WriteFields(common, <<"u16">> \o Layout(QT_AAAA), <<16>> \o r.data)
            ELSE IF r.qtype = QT_TXT
            THEN [buf |-> WriteAll(WriteU16(common.buf, Len(r.data[1]) % 65536), r.data[1]),
                  err |-> "Ok"]
            ELSE Sized(common.buf.pos,
                       WriteFields(common, <<"u16">> \o Layout(r.qtype), <<0>> \o r.data))
    IN  IF r.qtype \notin {QT_A, QT_AAAA, QT_NS, QT_CNAME, QT_SRV, QT_MX, QT_SOA, QT_TXT}
        THEN [buf |-> buf, err |-> "Ok"]           \* OPT and UNKNOWN: nothing is written
        ELSE \* write_common: owner, type, class IN, ttl
             Data(WriteFields([buf |-> buf, err |-> "Ok"],
                              <<"name", "u16", "u16", "u32">>,
                              <<r.domain, r.qtype, 1, r.ttl>>))

\* DnsRecord::read at a cursor with nothing read: val is the record
ReadRecord(c) ==
    LET \* h.val is <<domain, qtype, class, ttl, data_len>>
        Made(h, data) ==
            IF data.err # "Ok" THEN data
            ELSE [data EXCEPT !.val =
                     IF h.val[2] = QT_OPT
                     THEN Rec(QT_OPT, <<>>, <<h.val[3], h.val[4], data.val[1]>>, 0)
                     ELSE Rec(h.val[2], h.val[1], data.val, h.val[4])]
        Data(h) ==
            IF h.err # "Ok" THEN h
            ELSE Made(h,
                      IF h.val[2] \in {QT_TXT, QT_OPT}
                      THEN ReadBytes([h EXCEPT !.val = <<>>], h.val[5])
                      ELSE IF h.val[2] \in {QT_A, QT_AAAA, QT_NS, QT_CNAME, QT_SRV, QT_MX,
                                            QT_SOA}
                      THEN ReadFields([h EXCEPT !.val = <<>>], Layout(h.val[2]))
                      ELSE [h EXCEPT !.buf = VecSeek(@, @.pos + h.val[5]),  \* step(data_len)
                                     !.val = <<h.val[5]>>])
    IN  Data(ReadFields(c, <<"name", "u16", "u16", "u32", "u16">>))

\* DnsHeader::write
WriteHeader(buf, h) ==
    LET Bit(b) == IF b THEN 1 ELSE 0
        flags1 == Bit(h.recursion_desired) + 2 * Bit(h.truncated_message)
                  + 4 * Bit(h.authoritative_answer) + 8 * h.opcode + 128 * Bit(h.response)
        flags2 == h.rescode + 16 * Bit(h.checking_disabled) + 32 * Bit(h.authed_data)
                  + 64 * Bit(h.z) + 128 * Bit(h.recursion_available)
    IN  WriteFields([buf |-> buf, err |-> "Ok"],
                    <<"u16", "u8", "u8", "u16", "u16", "u16", "u16">>,
                    <<h.id, flags1, flags2, h.questions, h.answers,
                      h.authoritative_entries, h.resource_entries>>).buf

\* DnsHeader::read at a cursor with nothing read: val is the header
ReadHeader(c) ==
    LET Has(f, w) == (f \div w) % 2 = 1
        \* ResultCode::from_num: every number from 6 is NOERROR
        FromNum(n) == IF n \in 1..5 THEN n ELSE NOERROR
        Header(r, flags1, flags2) ==
            [r EXCEPT !.val =
                [id |-> r.val[1],
                 recursion_desired |-> Has(flags1, 1),
                 truncated_message |-> Has(flags1, 2),
                 authoritative_answer |-> Has(flags1, 4),
                 opcode |-> (flags1 \div 8) % 16,
                 response |-> Has(flags1, 128),
                 rescode |-> FromNum(flags2 % 16),
                 checking_disabled |-> Has(flags2, 16),
                 authed_data |-> Has(flags2, 32),
                 z |-> Has(flags2, 64),
                 recursion_available |-> Has(flags2, 128),
                 questions |-> r.val[3],
                 answers |-> r.val[4],
                 authoritative_entries |-> r.val[5],
                 resource_entries |-> r.val[6]]]
        Read(r) == IF r.err # "Ok" THEN r
                   ELSE Header(r, r.val[2] \div 256, r.val[2] % 256)
    IN  Read(ReadFields(c, <<"u16", "u16", "u16", "u16", "u16", "u16">>))

\* DnsQuestion::write: the name, the type, class IN
WriteQuestion(buf, q) ==
    WriteFields([buf |-> buf, err |-> "Ok"], <<"name", "u16", "u16">>,
                <<q.name, q.qtype, 1>>)

\* DnsQuestion::read at a cursor with nothing read: val is the question
ReadQuestion(c) ==
    LET Question(r) ==
            IF r.err # "Ok" THEN r
            ELSE [r EXCEPT !.val = [name |-> r.val[1], qtype |-> r.val[2]]]
    IN  Question(ReadFields(c, <<"name", "u16", "u16">>))

\* the questions, or the records, items[i..n] written in turn; the first error
\* ends the writing (the ? operator)
RECURSIVE WriteEach(_, _, _, _, _)
WriteEach(w, items, i, n, isQuestion) ==
    IF w.err # "Ok" \/ i > n THEN w
    ELSE WriteEach(IF isQuestion THEN WriteQuestion(w.buf, items[i])
                   ELSE WriteRecord(w.buf, items[i]),
                   items, i + 1, n, isQuestion)

\* DnsPacket::write, the loop over the chained sections (lines 963-985) from
\* record i on, written to the test buffer tb: the header, record_count and the
\* outcome
RECURSIVE CountRecords(_, _, _, _, _, _, _)
CountRecords(p, max_size, tb, i, size, h, record_count) ==
    LET Counted(w) ==
            IF w.err # "Ok"
            THEN [header |-> h, record_count |-> record_count, err |-> w.err]
            ELSE IF size + (w.buf.pos - tb.pos) > max_size
            THEN [header |-> [h EXCEPT !.truncated_message = TRUE],
                  record_count |-> record_count, err |-> "Ok"]
            ELSE CountRecords(p, max_size, w.buf, i + 1, size + (w.buf.pos - tb.pos),
                              IF i <= Len(p.answers)
                              THEN [h EXCEPT !.answers = (@ + 1) % 65536]
                              ELSE IF i <= Len(p.answers) + Len(p.authorities)
                              THEN [h EXCEPT !.authoritative_entries = (@ + 1) % 65536]
                              ELSE [h EXCEPT !.resource_entries = (@ + 1) % 65536],
                              i)
    IN  IF i > Len(p.answers) + Len(p.authorities) + Len(p.resources)
        THEN [header |-> h, record_count |-> record_count, err |-> "Ok"]
        ELSE Counted(WriteRecord(tb, (p.answers \o p.authorities \o p.resources)[i]))

\* DnsPacket::write(&mut self, buffer, max_size): [packet, buf, err, record_count],
\* packet being self as the call leaves it
PacketWrite(p, buf, max_size) ==
    LET Start(b) == [buf |-> b, err |-> "Ok"]
        \* DnsQuestion::binary_len: name.split('.').map(len + 1).sum() + 1
        binary_len(q) == Len(Str(q.name)) + 2
        \* 12 for the header and the binary_len of questions[i..]
        RECURSIVE Size(_)
        Size(i) == IF i > Len(p.questions) THEN 12
                   ELSE binary_len(p.questions[i]) + Size(i + 1)
        Done(header, out, record_count) ==
            [packet |-> [p EXCEPT !.header = header], buf |-> out.buf, err |-> out.err,
             record_count |-> record_count]
        \* the header, the questions and the first record_count records
        Emit(counted, header) ==
            IF counted.err # "Ok"
            THEN [packet |-> [p EXCEPT !.header = counted.header], buf |-> buf,
                  err |-> counted.err, record_count |-> counted.record_count]
            ELSE Done(header,
                      WriteEach(WriteEach(Start(WriteHeader(buf, header)), p.questions, 1,
                                          Len(p.questions), TRUE),
                                p.answers \o p.authorities \o p.resources, 1,
                                counted.record_count, FALSE),
                      counted.record_count)
        Sized(counted) ==
            Emit(counted, [counted.header EXCEPT !.questions = Len(p.questions) % 65536])
        Tested(tested) ==
            IF tested.err # "Ok"
            THEN [packet |-> p, buf |-> buf, err |-> tested.err, record_count |-> 0]
            ELSE Sized(CountRecords(p, max_size, tested.buf, 1, Size(1),
                                    p.header, 0))
    IN  Tested(WriteEach(Start(NewVectorBuffer), p.questions, 1, Len(p.questions), TRUE))

\* count reads of a question, or of a record, from cursor c: val is the list read
RECURSIVE ReadMany(_, _, _, _)
ReadMany(c, count, isQuestion, acc) ==
    LET Read(one) ==
            ReadMany(one, count - 1, isQuestion,
                     IF one.err = "Ok" THEN Append(acc, one.val) ELSE acc)
    IN  IF c.err # "Ok" \/ count = 0 THEN [c EXCEPT !.val = acc]
        ELSE Read(IF isQuestion THEN ReadQuestion([c EXCEPT !.val = <<>>])
                  ELSE ReadRecord([c EXCEPT !.val = <<>>]))

\* DnsPacket::from_buffer: [err, packet]
FromBuffer(buf) ==
    LET Packet(h, qs, an, au, re) ==
            IF re.err # "Ok" THEN [err |-> re.err, packet |-> NewPacket]
            ELSE [err |-> "Ok",
                  packet |-> [header |-> h.val, questions |-> qs.val, answers |-> an.val,
                              authorities |-> au.val, resources |-> re.val]]
        Resources(h, qs, an, au) ==
            Packet(h, qs, an, au, ReadMany(au, h.val.resource_entries, FALSE, <<>>))
        Authorities(h, qs, an) ==
            Resources(h, qs, an, ReadMany(an, h.val.authoritative_entries, FALSE, <<>>))
        Answers(h, qs) ==
            Authorities(h, qs, ReadMany(qs, h.val.answers, FALSE, <<>>))
        Questions(h) ==
            IF h.err # "Ok" THEN [err |-> h.err, packet |-> NewPacket]
            ELSE Answers(h, ReadMany(h, h.val.questions, TRUE, <<>>))
    IN  Questions(ReadHeader([buf |-> buf, err |-> "Ok", val |-> <<>>]))

MaxWrites == 2         \* write calls on the packets of one run

\* the packet of test_packet_truncation: id 1337 and ten A records, of
\* example0.com to example9.com, with the address 127.0.0.1
TruncationPacket ==
    [NewPacket EXCEPT
        !.header.id = 1337,
        !.answers = [i \in 1..10 |->
                        Rec(QT_A, <<<<101, 120, 97, 109, 112, 108, 101, 47 + i>>,
                                    <<99, 111, 109>>>>,
                            <<2130706433>>, 3600)]]

\* the packets written: built with DnsPacket::new (counts 0), the header of the
\* round-trip test or the default one, no question or one, and records of every
\* variant; the names are a.io, ns.io, ns.a.io and A.io
CodecPackets ==
    LET NameNsA == <<<<110, 115>>, <<97>>, <<105, 111>>>>
        NameUpper == <<<<65>>, <<105, 111>>>>
        answers == SeqsUpTo({Rec(QT_A, NameA, <<1>>, 60),
                             Rec(QT_NS, NameA, <<NameNsA>>, 60),
                             Rec(QT_MX, NameA, <<10, NameNsA>>, 60),
                             Rec(QT_TXT, NameA, <<<<104, 105>>>>, 60),
                             Rec(99, NameA, <<0>>, 60)}, 2)
        authorities == SeqsUpTo({Rec(QT_SOA, NameA, <<NameNsA, NameNs, 1, 2, 3, 4, 5>>, 60),
                                 Rec(QT_CNAME, NameUpper, <<NameNs>>, 60)}, 1)
        resources == SeqsUpTo({Rec(QT_A, NameNsA, <<9>>, 60),
                               Rec(QT_AAAA, NameNsA, <<1, 2, 3, 4, 5, 6, 7, 258>>, 60),
                               Rec(QT_SRV, NameA, <<1, 2, 53, NameNsA>>, 60),
                               Rec(QT_OPT, <<>>, <<512, 0, <<>>>>, 0)}, 1)
        headers == {NewHeader,
                    [NewHeader EXCEPT !.id = 1337, !.response = TRUE,
                                      !.recursion_desired = TRUE, !.rescode = NXDOMAIN]}
        questions == {<<>>, <<[name |-> NameUpper, qtype |-> QT_NS]>>}
    IN  {[header |-> h, questions |-> q, answers |-> an, authorities |-> au,
          resources |-> re] :
         h \in headers, q \in questions, an \in answers, au \in authorities,
         re \in resources}
        \cup {TruncationPacket}

\* packet.write(&mut buffer, max_size) on a new VectorPacketBuffer; the packet is
\* the one built or, later, the one the last from_buffer returned
Write(reencode, max_size) ==
    /\ codec.writes < MaxWrites
    /\ IF reencode THEN codec.pc = "read" /\ codec.rerr = "Ok" ELSE codec.pc = "new"
    /\ LET p == IF reencode THEN codec.parsed ELSE codec.packet
           w == PacketWrite(p, NewVectorBuffer, max_size)
       IN  codec' = [codec EXCEPT !.pc = "written", !.before = p, !.packet = w.packet,
                                  !.max_size = max_size, !.buffer = w.buf,
                                  !.werr = w.err, !.parsed = NewPacket,
                                  !.rerr = "None", !.writes = @ + 1,
                                  !.emitted = w.record_count]
    /\ UNCHANGED nonCodecVars

\* buffer.seek(0); DnsPacket::from_buffer(&mut buffer)
Read ==
    /\ codec.pc = "written"
    /\ codec.werr = "Ok"
    /\ LET r == FromBuffer(VecSeek(codec.buffer, 0))
       IN  codec' = [codec EXCEPT !.pc = "read", !.parsed = r.packet, !.rerr = r.err]
    /\ UNCHANGED nonCodecVars

InitCodec ==
    /\ BufIdle
    /\ CacheIdle
    /\ ClientIdle
    /\ SyncIdle
    /\ ResolverIdle
    /\ \E p \in CodecPackets : codec = NewCodec(p)

NextCodec ==
    \/ \E reencode \in BOOLEAN, max_size \in {40, 512, 65535} : Write(reencode, max_size)
    \/ Read

SpecCodec == InitCodec /\ [][NextCodec]_vars

\* ---- specification: a message of a header alone comes in from the wire, with
\* every value of the second flags octet (the response code is its low four
\* bits), is read with from_buffer and written again
InitHeader ==
    /\ BufIdle
    /\ CacheIdle
    /\ ClientIdle
    /\ SyncIdle
    /\ ResolverIdle
    /\ \E id \in {0, 1337}, flags1 \in {0, 129}, flags2 \in 0..255 :
          codec = [NewCodec(NewPacket) EXCEPT
                      !.pc = "written",
                      !.werr = "Ok",
                      !.buffer = [NewVectorBuffer EXCEPT
                                     !.bytes = <<id \div 256, id % 256, flags1, flags2,
                                                 0, 0, 0, 0, 0, 0, 0, 0>>,
                                     !.pos = 12]]

NextHeader ==
    \/ Read
    \/ \E max_size \in {512, 65535} : Write(TRUE, max_size)

SpecHeader == InitHeader /\ [][NextHeader]_vars

\* ---- specification: one resource record comes in from the wire, of owner "a",
\* class IN and ttl 60, with every type of RecordTypes, every RDLENGTH up to
\* MaxRdLength and eight octets after the RDLENGTH field, and is decoded with
\* DnsRecord::read from position 0
MaxRdLength == 6       \* the largest RDLENGTH a received record declares

RecordTypes == {QT_A, QT_NS, QT_CNAME, QT_MX, QT_TXT, QT_OPT, 99}

\* the octets that follow the RDLENGTH field: a name first, an address first,
\* or a preference and a name
RecordTails ==
    {<<1, 98, 0, 7, 7, 7, 7, 7>>, <<0, 0, 0, 9, 1, 98, 0, 0>>, <<0, 5, 1, 98, 0, 7, 7, 7>>}

\* the position of the RDATA of a record whose owner is the one label "a": the
\* name (3 octets), type, class, ttl and RDLENGTH (10 octets)
RdataStart == 13

InitRecord ==
    /\ BufIdle
    /\ CacheIdle
    /\ ClientIdle
    /\ SyncIdle
    /\ ResolverIdle
    /\ \E qtype \in RecordTypes, data_len \in 0..MaxRdLength, tail \in RecordTails :
          codec = [NewCodec(NewPacket) EXCEPT
                      !.pc = "written",
                      !.werr = "Ok",
                      !.buffer = [NewVectorBuffer EXCEPT
                                     !.bytes = <<1, 97, 0, 0, qtype, 0, 1, 0, 0, 0, 60,
                                                 data_len \div 256, data_len % 256>> \o tail]]

\* DnsRecord::read(&mut buffer) on the received octets: the buffer keeps the
\* cursor the call leaves
RecordRead ==
    /\ codec.pc = "written"
    /\ LET r == ReadRecord([buf |-> codec.buffer, err |-> "Ok", val |-> <<>>])
       IN  codec' = [codec EXCEPT
                        !.pc = "read",
                        !.buffer = r.buf,
                        !.rerr = r.err,
                        !.parsed = IF r.err = "Ok"
                                   THEN [NewPacket EXCEPT !.answers = <<r.val>>]
                                   ELSE NewPacket]
    /\ UNCHANGED nonCodecVars

NextRecord == RecordRead

SpecRecord == InitRecord /\ [][NextRecord]_vars

\* ---- specification: names with an invalid label ('_' is no label character),
\* in the first label or after valid ones, and two valid names are written
\* into one new buffer
RejectedNames ==
    {<<<<97>>>>, <<<<99, 111>>, <<97>>>>,
     <<<<97, 95>>>>, <<<<97, 95>>, <<97>>>>,
     <<<<97>>, <<97, 95>>>>, <<<<66>>, <<97, 95>>>>, <<<<99, 111>>, <<97>>, <<97, 95>>>>}

NextRejected == \E name \in RejectedNames : WriteName(name)

SpecRejected == InitQname /\ [][NextRejected]_vars

\* ---- specification: get_range on the fixed buffer of 512 octets, with ranges
\* that end before, at and after the last octet
BufSize == 512         \* buf: [u8; 512]
MaxRangeLen == 10      \* the longest range asked for

\* BytePacketBuffer::new
NewBytePacketBuffer == [bytes |-> [i \in 1..BufSize |-> 0], pos |-> 0]

\* BytePacketBuffer::get_range(start, len): [err, val]
ByteGetRange(buf, start, len) ==
    IF start + len >= 512
    THEN [err |-> "EndOfBuffer", val |-> <<>>]
    ELSE [err |-> "Ok", val |-> SubSeq(buf.bytes, start + 1, start + len)]

InitByte ==
    /\ CacheIdle
    /\ ClientIdle
    /\ SyncIdle
    /\ ResolverIdle
    /\ CodecIdle
    /\ buffer = NewBytePacketBuffer
    /\ rq = RqIdle
    /\ bphase = "read"
    /\ written = <<>>
    /\ decoded = <<>>

\* one get_range call; decoded holds the call and its result
GetRange(start, len) ==
    /\ LET r == ByteGetRange(buffer, start, len)
       IN  decoded' = <<[start |-> start, len |-> len, err |-> r.err, val |-> r.val]>>
    /\ UNCHANGED <<buffer, rq, bphase, written, nonBufVars>>

NextByte ==
    \E start \in (BufSize - MaxRangeLen)..BufSize, len \in 0..MaxRangeLen :
        GetRange(start, len)

SpecByte == InitByte /\ [][NextByte]_vars

(***************************************************************************)
(* Claims                                                                  *)
(***************************************************************************)

\* the records, TTL aside, in the answers of a lookup's result
AnswerKeys(out) ==
    {RecKey(out.packet.answers[i]) : i \in 1..Len(out.packet.answers)}

\* C1 (Cache TTL): while store([r]) at t0 with ttl T is the last store for r's
\* owner and type, every result of lookup(r.owner, r.type) is a packet whose
\* answers contain r at a time before t0+T, and none contains r after t0+T.
C1_CacheTtl ==
    lastStore.kind = "record" =>
        \A out \in LookupOutcomes(cache, lastStore.qname, lastStore.qtype, now) :
            /\ now < lastStore.t0 + lastStore.ttl =>
                  out.some /\ RecKey(lastStore.rec) \in AnswerKeys(out)
            /\ now > lastStore.t0 + lastStore.ttl =>
                  ~(out.some /\ RecKey(lastStore.rec) \in AnswerKeys(out))

\* C10 (Negative cache expiry): while store_nxdomain(name, qtype, ttl) at t0 is
\* the last store for the name and type, lookup(name, qtype) returns a packet
\* with rcode NXDOMAIN and empty sections before t0+ttl, and a miss after.
C10_NegativeExpiry ==
    lastStore.kind = "nxdomain" =>
        \A out \in LookupOutcomes(cache, lastStore.qname, lastStore.qtype, now) :
            /\ now < lastStore.t0 + lastStore.ttl =>
                  /\ out.some
                  /\ out.packet.header.rescode = NXDOMAIN
                  /\ out.packet.answers = <<>>
                  /\ out.packet.authorities = <<>>
                  /\ out.packet.resources = <<>>
            /\ now > lastStore.t0 + lastStore.ttl => ~out.some

\* a lookup has returned at a time the followed store has been passed (expired =
\* TRUE) or not yet reached (expired = FALSE)
LookedUpLast(kind, expired) ==
    /\ lastStore.kind = kind
    /\ lookupRes.called
    /\ lookupRes.qname = lastStore.qname
    /\ lookupRes.qtype = lastStore.qtype
    /\ IF expired THEN now > lastStore.t0 + lastStore.ttl
                  ELSE now < lastStore.t0 + lastStore.ttl

\* a negative entry has been looked up before its expiry, by a call that
\* returned NXDOMAIN
C10_NegativeHit ==
    /\ LookedUpLast("nxdomain", FALSE)
    /\ lookupRes.out.some
    /\ lookupRes.out.packet.header.rescode = NXDOMAIN

\* the records of a batch, TTL aside, with that owner and type
BatchKeys(batch, qname, qtype) ==
    {RecKey(batch[i]) : i \in {j \in 1..Len(batch) :
                                  batch[j].domain = qname /\ batch[j].qtype = qtype}}

\* a record with its names in lower case, its ttl left out
LowerRec(r) ==
    LET d == r.data
    IN  RecKey(Rec(r.qtype, LowerName(r.domain),
                   CASE r.qtype \in {QT_NS, QT_CNAME} -> <<LowerName(d[1])>>
                     [] r.qtype = QT_MX -> <<d[1], LowerName(d[2])>>
                     [] r.qtype = QT_SRV -> <<d[1], d[2], d[3], LowerName(d[4])>>
                     [] r.qtype = QT_SOA ->
                          <<LowerName(d[1]), LowerName(d[2]), d[3], d[4], d[5], d[6], d[7]>>
                     [] OTHER -> d,
                   0))

\* packet q is packet p up to the TC flag, the header counts, the case of names
\* and the ttl of records
SamePacket(p, q) ==
    LET Flags(h) == [h EXCEPT !.truncated_message = FALSE, !.questions = 0,
                              !.answers = 0, !.authoritative_entries = 0,
                              !.resource_entries = 0]
        Lowered(recs) == [i \in 1..Len(recs) |-> LowerRec(recs[i])]
    IN  /\ Flags(q.header) = Flags(p.header)
        /\ q.questions = [i \in 1..Len(p.questions) |->
                             [p.questions[i] EXCEPT !.name = LowerName(@)]]
        /\ Lowered(q.answers) = Lowered(p.answers)
        /\ Lowered(q.authorities) = Lowered(p.authorities)
        /\ Lowered(q.resources) = Lowered(p.resources)

\* C5 (Codec round-trip): a packet written without truncation and read back from
\* position 0 decodes, and the decoded packet has its header, questions, answers,
\* authorities and additionals, up to the case of names and the ttl of records.
C5_CodecRoundTrip ==
    (codec.pc = "read"
        /\ codec.packet.header.truncated_message = codec.before.header.truncated_message)
    => (codec.rerr = "Ok" /\ SamePacket(codec.before, codec.parsed))

\* C6 (Store atomicity): the answers of every lookup that has returned are, for
\* its owner and type, the records of whole store batches: each batch of a
\* store call is seen with all its records of that owner and type or with none.
C6_StoreAtomic ==
    \A t \in 1..MaxReaders :
        readers[t].returned =>
            \E S \in SUBSET storeLog :
                AnswerKeys(readers[t].out) =
                    UNION {BatchKeys(b, readers[t].qname, readers[t].qtype) : b \in S}

\* a lookup has returned both records of a two-record batch while another
\* store call is in the middle of its batch
C6_SeenWhole ==
    \E t \in 1..MaxReaders, u \in 1..MaxStorers :
        /\ readers[t].returned
        /\ Cardinality(AnswerKeys(readers[t].out)) = 2
        /\ storers[u].pc = "storing"
        /\ storers[u].i = 2
        /\ Len(storers[u].batch) = 2

\* C7 (Pending-query cleanup): the pending collection holds entries only of
\* calls still in flight; once a call has returned, with a packet, TimeOut or
\* any other error, no entry of it is left.
C7_PendingCleanup ==
    \A i \in 1..Len(client.pending_queries) :
        calls[client.pending_queries[i].tx].pc # "done"

\* C8 (UDP demultiplexing): a packet put on a call's channel, and a packet a
\* call returns, carries that call's transaction id; a call on whose channel
\* the response was put before it returned returns that packet.
C8_UdpDemux ==
    \A c \in Calls :
        /\ \A i \in 1..Len(calls[c].chan) :
              calls[c].chan[i].some => calls[c].chan[i].packet.header.id = calls[c].id
        /\ calls[c].pc = "done" /\ calls[c].fired =>
              /\ calls[c].result.kind = "Ok"
              /\ calls[c].result.packet = Response(calls[c].id)

\* one call has returned the response to its query while another call, under
\* a different id, is still waiting
C8_Delivered ==
    \E c \in Calls, d \in Calls :
        /\ calls[c].pc = "done"
        /\ calls[c].result.kind = "Ok"
        /\ calls[d].pc = "waiting"
        /\ calls[d].id # calls[c].id

\* what the calls have added to a counter
RECURSIVE SumOver(_, _)
SumOver(field, n) ==
    IF n = 0 THEN 0 ELSE calls[n][field] + SumOver(field, n - 1)

C2_LoopGuard ==
    \A i \in 1..Len(resolver.stack) : resolver.stack[i].sent <= 16

\* C3 (Pointer-chain bound): a read_qname run never follows more than 64
\* compression jumps; on a pointer cycle or a longer chain it has returned an
\* error by then instead of looping on.
C3_PointerChainBound == rq.jumps <= 64

\* C4 (Name compression round-trip): once every name written with write_qname
\* into an initially empty buffer has been read back from position 0, the
\* names decoded are the names written, lowercased, in the same order, each
\* read returned Ok, and the cursor is at the end of the buffer.
C4_NameRoundTrip ==
    bphase = "done" =>
        /\ Len(decoded) = Len(written)
        /\ \A i \in 1..Len(decoded) :
              /\ decoded[i].status = "Ok"
              /\ decoded[i].name = LowerName(written[i])
        /\ buffer.pos = Len(buffer.bytes)

\* the RecordEntry values the cache holds for an owner and a type
EntriesOf(c, qname, qtype) ==
    IF qname \in DOMAIN c /\ qtype \in DOMAIN c[qname].record_types
    THEN c[qname].record_types[qtype].records
    ELSE {}

\* C12 (Refresh replaces): a store([rec]) made while the cache holds an entry
\* equal to rec in owner, type and payload leaves exactly one entry for that
\* record, and it carries the timestamp and the ttl of this store.
C12_RefreshReplaces ==
    [][(/\ lastStore' # lastStore
        /\ lastStore'.kind = "record"
        /\ \E e \in EntriesOf(cache, lastStore'.qname, lastStore'.qtype) :
              RecKey(e.record) = RecKey(lastStore'.rec))
       => {e \in EntriesOf(cache', lastStore'.qname, lastStore'.qtype) :
              RecKey(e.record) = RecKey(lastStore'.rec)}
          = {[record |-> lastStore'.rec, timestamp |-> lastStore'.t0]}]_vars

\* C13 (Lookup validity): every record in the answers or the authorities of a
\* packet lookup returned is the record of an entry the cache holds for the
\* name (and the type asked, or NS) whose timestamp + ttl is after the instant
\* of the lookup.
C13_LookupValid ==
    (lookupRes.called /\ lookupRes.out.some) =>
        LET Valid(recs, qtype) ==
                \A i \in 1..Len(recs) :
                    \E e \in EntriesOf(cache, lookupRes.qname, qtype) :
                        e.record = recs[i] /\ e.timestamp + recs[i].ttl > now
        IN  /\ Valid(lookupRes.out.packet.answers, lookupRes.qtype)
            /\ Valid(lookupRes.out.packet.authorities, QT_NS)

\* a lookup has returned answers while the set it read also holds an expired
\* entry
C13_ExpiredLeftOut ==
    /\ lookupRes.called
    /\ lookupRes.out.some
    /\ lookupRes.out.packet.answers # <<>>
    /\ \E e \in EntriesOf(cache, lookupRes.qname, lookupRes.qtype) :
          e.timestamp + e.record.ttl <= now

\* C14 (Case-insensitive lookup): while the cache holds a valid record under
\* the owner name N, lookup(M, type) returns a packet for every name M equal to
\* N up to letter case ("a.io" and "A.io" here).
C14_CaseInsensitive ==
    \A N \in DOMAIN cache, M \in {NameA, <<<<65>>, <<105, 111>>>>}, qtype \in CacheTypes :
        (/\ LowerName(M) = LowerName(N)
         /\ \E e \in EntriesOf(cache, N, qtype) : e.timestamp + e.record.ttl > now)
        => \A out \in LookupOutcomes(cache, M, qtype, now) : out.some

\* of the first n records of answers ++ authorities ++ resources of packet p,
\* how many each section holds
EmittedOf(p, n) ==
    LET Part(from, len) == IF n <= from THEN 0 ELSE IF n >= from + len THEN len ELSE n - from
    IN  [answers |-> Part(0, Len(p.answers)),
         authoritative_entries |-> Part(Len(p.answers), Len(p.authorities)),
         resource_entries |-> Part(Len(p.answers) + Len(p.authorities), Len(p.resources))]

\* C15 (Header counts match emission): after a write that returned Ok, the four
\* counts in the header octets of the buffer are the number of questions written
\* and, for each section, the number of its records among those emitted,
\* whatever the counts of the packet were before the call.
C15_HeaderCounts ==
    codec.werr = "Ok" =>
        LET b == codec.buffer.bytes
            U16(i) == b[i] * 256 + b[i + 1]
            e == EmittedOf(codec.before, codec.emitted)
        IN  /\ U16(5) = Len(codec.before.questions)
            /\ U16(7) = e.answers
            /\ U16(9) = e.authoritative_entries
            /\ U16(11) = e.resource_entries

\* C16 (Truncation rule): a write that returned Ok, of a packet whose TC flag was
\* not set, has emitted the longest prefix of answers ++ authorities ++
\* resources whose encoding, with the header and the questions, is of at most
\* max_size octets, and has set TC exactly when a record was left out.
C16_TruncationRule ==
    (codec.werr = "Ok" /\ ~codec.before.header.truncated_message) =>
        LET p == codec.before
            recs == p.answers \o p.authorities \o p.resources
            EncodedSize(k) ==
                Len(WriteEach(WriteEach([buf |-> WriteHeader(NewVectorBuffer, p.header),
                                         err |-> "Ok"],
                                        p.questions, 1, Len(p.questions), TRUE),
                              recs, 1, k, FALSE).buf.bytes)
            fits == {k \in 0..Len(recs) : EncodedSize(k) <= codec.max_size}
            longest == IF fits = {} THEN 0 ELSE CHOOSE k \in fits : \A j \in fits : j <= k
        IN  /\ codec.emitted = longest
            /\ codec.packet.header.truncated_message = (codec.emitted < Len(recs))

C11_NegativeSoa ==
    (/\ resolver.pc = "done"
     /\ resolver.result.kind = "Ok"
     /\ resolver.result.packet.header.rescode = NXDOMAIN
     /\ TtlFromSoa(resolver.result.packet) # <<>>)
    => \A out \in LookupOutcomes(cache, resolver.call[1], resolver.call[2], now) :
          /\ now < resolver.t0 + TtlFromSoa(resolver.result.packet)[1] =>
                out.some /\ out.packet.header.rescode = NXDOMAIN
          /\ now > resolver.t0 + TtlFromSoa(resolver.result.packet)[1] => ~out.some

\* C18 (Resolver idempotence): a resolve(name, type, true) call that follows a
\* call with the same arguments and returns without asking upstream (it is
\* served from the cache) returns the records, TTL and order aside, that the
\* call before it returned in its answers.
C18_Idempotent ==
    [][(/\ resolver.pc = "done"
        /\ resolver'.pc = "done"
        /\ resolver'.call = resolver.call
        /\ resolver.call[3]
        /\ resolver.result.kind = "Ok"
        /\ resolver'.result.kind = "Ok")
       => AnswerKeys(resolver'.result) = AnswerKeys(resolver.result)]_vars

\* C19 (REFUSED rule): a resolve call for a known type with the recursion
\* argument false, or in a context that disallows recursion, returns at once the
\* packet with rcode REFUSED and nothing else, whatever the cache holds, and
\* leaves the cache as it was.
C19_Refused ==
    [][(/\ resolver.pc \in {"idle", "done"}
        /\ resolver' # resolver
        /\ resolver'.call[2] # 99
        /\ ~resolver'.call[3] \/ ~resolver'.call[4])
       => /\ resolver'.pc = "done"
          /\ resolver'.stack = <<>>
          /\ resolver'.result =
                [kind |-> "Ok", packet |-> [NewPacket EXCEPT !.header.rescode = REFUSED]]
          /\ cache' = cache]_vars

\* a call was refused while the cache held a valid answer for its name and type
C19_RefusedWithAnswer ==
    /\ resolver.pc = "done"
    /\ resolver.call[2] = QT_A
    /\ ~resolver.call[3] \/ ~resolver.call[4]
    /\ resolver.result.packet.header.rescode = REFUSED
    /\ CacheState(cache, resolver.call[1], QT_A, now) = "PositiveCache"

\* C20 (Cache short-circuit): a resolve call for a known type with recursion
\* allowed returns the packet the cache holds for the name and the type, or,
\* when that lookup misses and the type is A or AAAA, the one it holds for the
\* name and CNAME, and invokes no perform; it goes on to perform (or fails for
\* want of a server) only when these lookups miss.
C20_ShortCircuit ==
    [][(/\ resolver.pc \in {"idle", "done"}
        /\ resolver' # resolver
        /\ resolver'.call[2] # 99
        /\ resolver'.call[3] /\ resolver'.call[4])
       => LET first == LookupOutcomes(cache, resolver'.call[1], resolver'.call[2], now)
              cname == LookupOutcomes(cache, resolver'.call[1], QT_CNAME, now)
              hit == IF NoPacket \notin first THEN first
                     ELSE IF resolver'.call[2] \in {QT_A, QT_AAAA} /\ NoPacket \notin cname
                     THEN cname
                     ELSE {}
          IN  IF hit # {}
              THEN /\ resolver'.pc = "done"
                   /\ resolver'.stack = <<>>
                   /\ resolver'.result.kind = "Ok"
                   /\ SomePacket(resolver'.result.packet) \in hit
                   /\ cache' = cache
              ELSE \/ resolver'.pc \in {"perform", "forward"}
                   \/ resolver'.result.kind = "NoServerFound"]_vars

\* a call for A was served the CNAME the cache holds for the name, the lookup
\* for A having missed
C20_ServedCname ==
    /\ resolver.pc = "done"
    /\ resolver.call[2] = QT_A
    /\ resolver.call[3] /\ resolver.call[4]
    /\ resolver.result.kind = "Ok"
    /\ CacheState(cache, resolver.call[1], QT_A, now) = "NotCached"
    /\ CacheState(cache, resolver.call[1], QT_CNAME, now) = "PositiveCache"
    /\ Len(resolver.result.packet.answers) = 1
    /\ resolver.result.packet.answers[1].qtype = QT_CNAME

\* C21 (Out-of-range access is an error value): a read_qname run that reaches
\* a position outside the buffer returns an error value: it never aborts, and
\* the cursor is never left outside the buffer.
C21_OutOfRange ==
    /\ rq.status # "Panic"
    /\ \A i \in 1..Len(decoded) : decoded[i].status # "Panic"
    /\ buffer.pos <= Len(buffer.bytes)

\* C22 (Label length limit): write_qname accepts no name that holds a label
\* longer than 63 octets (it returns an invalid-label error for it).
C22_LabelLimit ==
    \A i \in 1..Len(written) :
        \A j \in 1..Len(written[i]) : Len(written[i][j]) <= 63

C24_Overwrite ==
    (/\ lookupRes.called
     /\ lastStore.kind = "record"
     /\ lastStore.qtype = QT_A
     /\ lookupRes.qname = lastStore.qname
     /\ lookupRes.qtype = QT_A
     /\ lookupRes.out.some
     /\ lookupRes.out.packet.answers # <<>>)
    => /\ Len(lookupRes.out.packet.answers) = 1
       /\ RecKey(lookupRes.out.packet.answers[1]) = RecKey(lastStore.rec)

\* C25 (Answer order): after one store call of distinct records and no other,
\* a lookup that returns a packet has in its answers the records of the batch
\* for the name asked, in the order in which the batch gave them.
C25_AnswerOrder ==
    \A t \in 1..MaxReaders, u \in 1..MaxStorers :
        (/\ storers[u].pc = "done"
         /\ \A v \in 1..MaxStorers : v # u => storers[v].pc = "idle"
         /\ \A i, j \in 1..Len(storers[u].batch) :
               i # j => storers[u].batch[i] # storers[u].batch[j]
         /\ readers[t].returned
         /\ readers[t].out.some)
        => LET Asked(r) == r.domain = readers[t].qname /\ r.qtype = readers[t].qtype
           IN  readers[t].out.packet.answers = SelectSeq(storers[u].batch, Asked)

\* C26 (Unknown record types round-trip): a packet built with an answer of an
\* unknown type (and no OPT record), written once without truncation and read
\* back, decodes without error; the decoded answers hold that record with its
\* type number, owner and data length, and every other record of the three
\* sections is decoded as it was written.
C26_UnknownRoundTrip ==
    (/\ codec.pc = "read"
     /\ codec.writes = 1
     /\ ~codec.packet.header.truncated_message
     /\ \E i \in 1..Len(codec.before.answers) : codec.before.answers[i].qtype = 99
     /\ \A i \in 1..Len(codec.before.resources) :
           codec.before.resources[i].qtype # QT_OPT)
    => /\ codec.rerr = "Ok"
       /\ \A section \in {"answers", "authorities", "resources"} :
             /\ Len(codec.parsed[section]) = Len(codec.before[section])
             /\ \A i \in 1..Len(codec.before[section]) :
                   LowerRec(codec.parsed[section][i]) = LowerRec(codec.before[section][i])

\* C27 (Registration before send): at every step in which send_udp_query hands
\* its datagram to the socket, the pending collection already holds the entry
\* of the call under the transaction id of the datagram; and at no point
\* between two steps of the calls (the calls are suspended there) is the mutex
\* of the collection held.
C27_RegisteredBeforeSend ==
    [][/\ \A c \in Calls :
             (calls[c].id \notin wire /\ calls[c].id \in wire' /\ calls'[c].pc = "waiting")
             => \E i \in 1..Len(client.pending_queries) :
                    client.pending_queries[i] = [seq |-> calls[c].id, tx |-> c]
       /\ client.mutex = None
       /\ client'.mutex = None]_vars

\* a datagram is on the wire and its call waits for the response, its entry
\* still pending
C27_SentRegistered ==
    \E c \in Calls :
        /\ calls[c].pc = "waiting"
        /\ calls[c].id \in wire
        /\ \E i \in 1..Len(client.pending_queries) :
              client.pending_queries[i] = [seq |-> calls[c].id, tx |-> c]

\* C28 (Delegation ancestry): the NS records that get_unresolved_ns and
\* get_resolved_ns select from the response a perform holds are records whose
\* owner is an ancestor of the name asked: the labels of the owner are the
\* last labels of the name.
C28_DelegationAncestry ==
    \A i \in 1..Len(resolver.stack) :
        LET f == resolver.stack[i]
            Selected(r) ==
                /\ r.qtype = QT_NS
                /\ r.data[1] \in Range(UnresolvedNs(f.last, f.qname))
        IN  /\ \A r \in Range(f.last.authorities) :
                  Selected(r) => EndsWith(f.qname, r.domain)
            /\ ResolvedNs(f.last, f.qname) # <<>> =>
                  \E r \in Range(f.last.authorities), g \in Range(f.last.resources) :
                      /\ r.qtype = QT_NS
                      /\ EndsWith(f.qname, r.domain)
                      /\ g.qtype = QT_A
                      /\ g.domain = r.data[1]
                      /\ g.data[1] = ResolvedNs(f.last, f.qname)[1]

\* C29 (Seeding): a resolve call that reaches the recursive perform starts it
\* with an address of a nameserver of the longest suffix of the name for which
\* the cache holds a valid NS record and a valid A record of the host of one
\* of the suffix's NS records; it fails with NoServerFound, no query sent,
\* only when no suffix has such a pair.
C29_Seeding ==
    [][(/\ resolver.pc \in {"idle", "done"}
        /\ resolver' # resolver
        /\ resolver'.call[5] = "Recursive")
       => LET qname == resolver'.call[1]
              Suffix(idx) == SubSeq(qname, idx, Len(qname))
              Pairs(idx) ==
                  UNION {{a.data[1] : a \in CacheValidRecords(cache, n.data[1], QT_A, now)} :
                         n \in CacheValidRecords(cache, Suffix(idx), QT_NS, now)}
              Best == {idx \in 1..(Len(qname) + 1) :
                          /\ Pairs(idx) # {}
                          /\ \A j \in 1..(idx - 1) : Pairs(j) = {}}
          IN  /\ resolver'.pc = "perform" =>
                    /\ resolver'.stack[1].sent = 0
                    /\ \E idx \in Best : resolver'.stack[1].ns \in Pairs(idx)
              /\ resolver'.result.kind = "NoServerFound" =>
                    /\ Best = {}
                    /\ resolver'.stack = <<>>]_vars

\* C30 (Transport failure): a step in which the client query of perform fails,
\* in the forwarding or the recursive resolver, at any depth of nested
\* resolution, ends the resolve call with the error that wraps the client
\* error: the call has returned, so it sends no further query, and the cache
\* is as it was before the step.
C30_TransportFailure ==
    [][(PerformQuery(FALSE, NewPacket) \/ ForwardQuery(FALSE, NewPacket))
       => /\ resolver'.pc = "done"
          /\ resolver'.result = [kind |-> "Client", packet |-> NewPacket]
          /\ resolver'.stack = <<>>
          /\ cache' = cache]_vars

\* a recursive resolve call has failed with the client error after a referral
\* of an earlier query was stored
C30_FailedAfterReferral ==
    /\ resolver.pc = "done"
    /\ resolver.result.kind = "Client"
    /\ resolver.call[5] = "Recursive"
    /\ <<>> \in DOMAIN cache
    /\ NameNs \in DOMAIN cache

\* C31 (Backward pointers only): every compression pointer that a read_qname
\* run follows leads strictly backward: the position it jumps to is below the
\* position of the pointer (a pointer to its own position or beyond ends the
\* run with an error instead).
C31_BackwardOnly ==
    [][(rq.pc = "loop" /\ rq'.jumps = rq.jumps + 1) => rq'.pos < rq.pos]_vars

\* C32 (Pointer detection): a read_qname run jumps only at a length octet
\* whose two top bits are both set (an octet of 0xC0 or more), and it jumps to
\* the 14-bit offset made of the low 6 bits of that octet and the next octet.
C32_PointerDetection ==
    [][(rq.pc = "loop" /\ rq'.jumps = rq.jumps + 1)
       => /\ buffer.bytes[rq.pos + 1] >= 192
          /\ rq'.pos = (buffer.bytes[rq.pos + 1] - 192) * 256 + buffer.bytes[rq.pos + 2]]_vars

\* C33 (Cursor after name decode): when a read_qname run has returned Ok, the
\* cursor is where a walk over the literal labels from the cursor the run
\* started at stops: just after the terminating zero octet when it meets no
\* pointer, and two octets past the first pointer otherwise, whatever jumps
\* followed.  The first run starts at 0, each later run where the one before
\* left the cursor.
C33_CursorAfterDecode ==
    LET RECURSIVE Stop(_, _)
        Stop(p, fuel) ==
            IF p = None \/ p >= Len(buffer.bytes) \/ fuel = 0 THEN None
            ELSE IF buffer.bytes[p + 1] = 0 THEN p + 1
            ELSE IF buffer.bytes[p + 1] >= 192 THEN p + 2
            ELSE Stop(p + 1 + buffer.bytes[p + 1], fuel - 1)
        RECURSIVE CursorAfter(_)
        CursorAfter(k) ==
            IF k = 0 THEN 0 ELSE Stop(CursorAfter(k - 1), Len(buffer.bytes))
    IN  (rq.pc = "done" /\ rq.status = "Ok")
        => buffer.pos = CursorAfter(Len(decoded) + 1)

\* a run has returned Ok after two jumps or more
C33_JumpedTwice ==
    /\ rq.pc = "done"
    /\ rq.status = "Ok"
    /\ rq.jumps >= 2

\* C34 (14-bit pointer limit): a write_qname call for a name that the buffer
\* recorded at a position of 16384 or more emits no pointer to it: what it
\* appends starts with the length octet of the name's first label.
C34_PointerLimit ==
    [][(/\ Len(written') = Len(written) + 1
        /\ written'[Len(written')] # <<>>
        /\ FindLabel(buffer, written'[Len(written')]) # None
        /\ FindLabel(buffer, written'[Len(written')]) >= 16384)
       => buffer'.bytes[Len(buffer.bytes) + 1] = Len(written'[Len(written')][1])]_vars

\* C35 (Response code preservation): the header read from a received message
\* holds the 4-bit response code of the message, whichever of the 16 values it
\* is, and DnsHeader::write of that header writes the same code.
C35_RescodePreserved ==
    (codec.pc = "read" /\ codec.rerr = "Ok" /\ codec.writes = 0)
    => /\ codec.parsed.header.rescode = codec.buffer.bytes[4] % 16
       /\ WriteHeader(NewVectorBuffer, codec.parsed.header).bytes[4] % 16
             = codec.buffer.bytes[4] % 16

\* C36 (Positive store supersedes a negative entry): a store([r]) with a TTL
\* above 0, made while the cache holds a negative (NoRecords) entry for r's
\* owner and type, valid or expired, makes every lookup of that owner and type
\* at the instant of the store return a packet with r in its answers.
C36_PositiveSupersedes ==
    [][(/\ lastStore' # lastStore
        /\ lastStore'.kind = "record"
        /\ lastStore'.ttl > 0
        /\ lastStore'.qname \in DOMAIN cache
        /\ lastStore'.qtype \in DOMAIN cache[lastStore'.qname].record_types
        /\ cache[lastStore'.qname].record_types[lastStore'.qtype].kind = "NoRecords")
       => \A out \in LookupOutcomes(cache', lastStore'.qname, lastStore'.qtype, now') :
              /\ out.some
              /\ RecKey(lastStore'.rec) \in AnswerKeys(out)]_vars

\* C37 (Size budget respected): when DnsPacket::write(buffer, max_size) has
\* returned Ok, the number of octets written into the caller's buffer is at
\* most max_size.
C37_SizeBudget ==
    (codec.pc # "new" /\ codec.werr = "Ok") =>
        Len(codec.buffer.bytes) <= codec.max_size

\* C38 (Record decode consumes the declared length): when DnsRecord::read has
\* returned a record, the cursor is exactly RDLENGTH octets past the start of
\* the RDATA, whatever the type and whether or not RDLENGTH is the natural size
\* of the type's data.
C38_ConsumesDeclared ==
    (codec.pc = "read" /\ codec.rerr = "Ok") =>
        codec.buffer.pos = RdataStart + 256 * codec.buffer.bytes[RdataStart - 1]
                                      + codec.buffer.bytes[RdataStart]

\* C39 (Failed name write changes nothing): a write_qname call that returns an
\* error leaves the buffer's bytes, its cursor and its suffix-to-position map
\* as they were before the call.
C39_FailedWriteChangesNothing ==
    [][\A name \in RejectedNames :
          (WriteName(name) /\ WriteQname(buffer, name).err # "Ok") => buffer' = buffer]_vars

\* C40 (512-octet range boundary): on the fixed 512-octet buffer,
\* get_range(start, len) returns the len octets from start exactly when
\* start + len <= 512, and fails with EndOfBuffer otherwise.
C40_RangeBoundary ==
    \A i \in 1..Len(decoded) :
        /\ (decoded[i].err = "Ok") <=> (decoded[i].start + decoded[i].len <= BufSize)
        /\ decoded[i].err = "Ok" => Len(decoded[i].val) = decoded[i].len
        /\ decoded[i].err # "Ok" => decoded[i].err = "EndOfBuffer"

====
